---------------------------- MODULE Spec2Model ----------------------------
(***************************************************************************)
(* wiregen: the WireGuard configuration codec (parseWireGuardConfig,       *)
(* generateWireGuardConfig, peerFromConfig), the field validators, the     *)
(* save gate of the config editor and the config collection.               *)
(*                                                                         *)
(* Text is modelled as TLA+ strings and processed character by character   *)
(* the way the JavaScript string methods do.  JavaScript values that may   *)
(* be undefined are tagged records (Undefined, NaN, Num(n), Str(s)).       *)
(***************************************************************************)
EXTENDS Integers, Sequences, FiniteSets, TLC

(***************************************************************************)
(* JavaScript values                                                       *)
(***************************************************************************)
Undefined == [t |-> "undefined", n |-> 0, s |-> ""]

NaN == [t |-> "NaN", n |-> 0, s |-> ""]

Num(n) == [t |-> "number", n |-> n, s |-> ""]

Str(s) == [t |-> "string", n |-> 0, s |-> s]

\* JavaScript truthiness of an optional number or string
Truthy(v) ==
    \/ v.t = "number" /\ v.n # 0
    \/ v.t = "string" /\ v.s # ""

\* `${v}` in a template literal
Interp(v) ==
    CASE v.t = "number" -> ToString(v.n)
      [] v.t = "string" -> v.s
      [] v.t = "NaN" -> "NaN"
      [] OTHER -> "undefined"

(***************************************************************************)
(* JavaScript string methods                                               *)
(***************************************************************************)
MaxOf(S) == CHOOSE i \in S : \A j \in S : i >= j

MinOf(S) == CHOOSE i \in S : \A j \in S : i <= j

CharAt(s, i) == SubSeq(s, i, i)

IsSpace(c) == c \in {" ", "\t", "\r", "\n"}

\* String.prototype.trimStart
RECURSIVE TrimStart(_)
TrimStart(s) ==
    IF s # "" /\ IsSpace(CharAt(s, 1)) THEN TrimStart(SubSeq(s, 2, Len(s))) ELSE s

\* String.prototype.trimEnd
RECURSIVE TrimEnd(_)
TrimEnd(s) ==
    IF s # "" /\ IsSpace(CharAt(s, Len(s))) THEN TrimEnd(SubSeq(s, 1, Len(s) - 1)) ELSE s

\* String.prototype.trim
Trim(s) == TrimEnd(TrimStart(s))

RECURSIVE IndexFrom(_, _, _)
IndexFrom(s, c, i) ==
    IF i > Len(s) THEN 0
    ELSE IF CharAt(s, i) = c THEN i
    ELSE IndexFrom(s, c, i + 1)

\* String.prototype.indexOf for a one-character needle, 1-based; 0 when absent
IndexOf(s, c) == IndexFrom(s, c, 1)

Includes(s, c) == IndexOf(s, c) # 0

StartsWith(s, prefix) ==
    Len(s) >= Len(prefix) /\ SubSeq(s, 1, Len(prefix)) = prefix

EndsWith(s, suffix) ==
    Len(s) >= Len(suffix) /\ SubSeq(s, Len(s) - Len(suffix) + 1, Len(s)) = suffix

\* String.prototype.slice(from) with a 1-based first character
SliceFrom(s, i) == SubSeq(s, i, Len(s))

\* String.prototype.split for a one-character separator
RECURSIVE Split(_, _)
Split(s, c) ==
    LET i == IndexOf(s, c)
    IN  IF i = 0 THEN <<s>>
        ELSE <<SubSeq(s, 1, i - 1)>> \o Split(SliceFrom(s, i + 1), c)

\* Array.prototype.join
RECURSIVE Join(_, _)
Join(seq, sep) ==
    IF seq = <<>> THEN ""
    ELSE IF Len(seq) = 1 THEN seq[1]
    ELSE seq[1] \o sep \o Join(Tail(seq), sep)

\* array.map(x => x.trim())
TrimAll(seq) == [i \in 1..Len(seq) |-> Trim(seq[i])]

UpperChars == "ABCDEFGHIJKLMNOPQRSTUVWXYZ"

LowerChars == "abcdefghijklmnopqrstuvwxyz"

\* the lower-case letter of each upper-case letter
UpperToLower ==
    [c \in {CharAt(UpperChars, i) : i \in 1..Len(UpperChars)} |->
        CharAt(LowerChars, IndexOf(UpperChars, c))]

LowerChar(c) == IF c \in DOMAIN UpperToLower THEN UpperToLower[c] ELSE c

\* String.prototype.toLowerCase
RECURSIVE ToLowerCase(_)
ToLowerCase(s) ==
    IF s = "" THEN ""
    ELSE LowerChar(CharAt(s, 1)) \o ToLowerCase(SliceFrom(s, 2))

\* value.replaceAll(";", "\n")
RECURSIVE ReplaceAll(_, _, _)
ReplaceAll(s, c, by) ==
    IF s = "" THEN ""
    ELSE (IF CharAt(s, 1) = c THEN by ELSE CharAt(s, 1))
         \o ReplaceAll(SliceFrom(s, 2), c, by)

\* s.replace(/\r?\n/g, by)
RECURSIVE ReplaceNewlines(_, _)
ReplaceNewlines(s, by) ==
    IF s = "" THEN ""
    ELSE IF StartsWith(s, "\r\n") THEN by \o ReplaceNewlines(SliceFrom(s, 3), by)
    ELSE IF StartsWith(s, "\n") THEN by \o ReplaceNewlines(SliceFrom(s, 2), by)
    ELSE CharAt(s, 1) \o ReplaceNewlines(SliceFrom(s, 2), by)

HexDigits == "0123456789abcdef"

\* the value of each digit
HexValue ==
    [c \in {CharAt(HexDigits, i) : i \in 1..Len(HexDigits)} |-> IndexOf(HexDigits, c) - 1]

\* the value of a digit in the radix, or -1 when c is no digit of it
DigitValue(c, radix) ==
    LET l == LowerChar(c)
    IN  IF l \in DOMAIN HexValue /\ HexValue[l] < radix THEN HexValue[l] ELSE -1

RECURSIVE DigitsValue(_, _, _)
DigitsValue(s, radix, acc) ==
    IF s = "" \/ DigitValue(CharAt(s, 1), radix) < 0 THEN acc
    ELSE DigitsValue(SliceFrom(s, 2), radix, acc * radix + DigitValue(CharAt(s, 1), radix))

\* parseInt(str): leading whitespace, a sign, an optional 0x prefix, then the
\* longest prefix of digits; whatever follows the digits is ignored
ParseInt(str) ==
    LET s0 == TrimStart(str)
        neg == StartsWith(s0, "-")
        s1 == IF neg \/ StartsWith(s0, "+") THEN SliceFrom(s0, 2) ELSE s0
        hex == StartsWith(s1, "0x") \/ StartsWith(s1, "0X")
        s2 == IF hex THEN SliceFrom(s1, 3) ELSE s1
        radix == IF hex THEN 16 ELSE 10
    IN  IF s2 = "" \/ DigitValue(CharAt(s2, 1), radix) < 0 THEN NaN
        ELSE Num((IF neg THEN -1 ELSE 1) * DigitsValue(s2, radix, 0))


(***************************************************************************)
(* Key derivation                                                          *)
(***************************************************************************)
Base64Chars == "ABCDEFGHIJKLMNOPQRSTUVWXYZabcdefghijklmnopqrstuvwxyz0123456789+/"

Base64Set == {CharAt(Base64Chars, i) : i \in 1..Len(Base64Chars)}

RECURSIVE RemoveSpaces(_)
RemoveSpaces(s) ==
    IF s = "" THEN ""
    ELSE (IF IsSpace(CharAt(s, 1)) THEN "" ELSE CharAt(s, 1)) \o RemoveSpaces(SliceFrom(s, 2))

\* atob: the number of bytes the text decodes to, or -1 when atob throws
\* (a character outside the alphabet, or a length of 1 modulo 4)
AtobLength(base64) ==
    LET text == RemoveSpaces(base64)
        n == Len(text)
        pad == IF n % 4 # 0 \/ n = 0 \/ ~EndsWith(text, "=") THEN 0
               ELSE IF EndsWith(text, "==") THEN 2 ELSE 1
        m == n - pad
    IN  IF m % 4 = 1 \/ \E i \in 1..m : CharAt(text, i) \notin Base64Set
        THEN -1
        ELSE (m * 6) \div 8

\* The private keys the model uses with the public keys X25519 gives them.
\* The first two differ only in a bit that X25519 clamps away, so they have
\* the same public key.
KeyPairs ==
    << <<"AAAAAAAAAAAAAAAAAAAAAAAAAAAAAAAAAAAAAAAAAAA=", "L+V9o0fNYkMVKNqsX7spBzD/9oSvxM/C7ZCZX1jLO3Q=">>,
       <<"BAAAAAAAAAAAAAAAAAAAAAAAAAAAAAAAAAAAAAAAAAA=", "L+V9o0fNYkMVKNqsX7spBzD/9oSvxM/C7ZCZX1jLO3Q=">>,
       <<"CCCCCCCCCCCCCCCCCCCCCCCCCCCCCCCCCCCCCCCCCCA=", "jUd41n3XYa3yXBzyBvWqlLhYgRef5RiBD7jwo70U+Rw=">>,
       <<"DDDDDDDDDDDDDDDDDDDDDDDDDDDDDDDDDDDDDDDDDDA=", "MMsBeTT9v/7XNWB8a/jSMn9O8olPVNduUwvUPJ6eB14=">> >>

\* x25519.getPublicKey on the decoded key, given back in base64
X25519(privateKeyBase64) ==
    IF \E i \in 1..Len(KeyPairs) : KeyPairs[i][1] = privateKeyBase64
    THEN KeyPairs[CHOOSE i \in 1..Len(KeyPairs) : KeyPairs[i][1] = privateKeyBase64][2]
    ELSE "pub(" \o privateKeyBase64 \o ")"

\* base64ToUint8Array: the bytes atob gives for a text it accepts, named by
\* their base64 text without whitespace and with its padding
base64ToUint8Array(base64) ==
    LET text == RemoveSpaces(base64)
    IN  IF Len(text) % 4 = 3 THEN text \o "="
        ELSE IF Len(text) % 4 = 2 THEN text \o "==" ELSE text

\* what a caller would see of an exception atob throws
InvalidCharacterError == "InvalidCharacterError"

\* getPublicKey without its try and catch
getPublicKeyUncaught(privateKeyBase64) ==
    IF AtobLength(privateKeyBase64) = -1 THEN InvalidCharacterError
    ELSE IF AtobLength(privateKeyBase64) # 32 THEN ""
    ELSE X25519(base64ToUint8Array(privateKeyBase64))

\* an exception of atob is caught and gives ''
getPublicKey(privateKeyBase64) ==
    IF AtobLength(privateKeyBase64) # 32 THEN ""
    ELSE X25519(base64ToUint8Array(privateKeyBase64))

(***************************************************************************)
(* Field validators.  A validator gives its message, "" for undefined.     *)
(***************************************************************************)
DigitSet == {CharAt(HexDigits, i) : i \in 1..10}

HexSet == {CharAt(HexDigits, i) : i \in 1..16} \cup {CharAt(UpperChars, i) : i \in 1..6}

AllIn(s, set) == \A i \in 1..Len(s) : CharAt(s, i) \in set

\* String.prototype.lastIndexOf for a one-character needle, 0 when absent
LastIndexOf(s, c) ==
    LET at == {i \in 1..Len(s) : CharAt(s, i) = c}
    IN  IF at = {} THEN 0 ELSE MaxOf(at)

\* decimal digits, at most maxLen of them
IsDigits(s, maxLen) == Len(s) \in 1..maxLen /\ AllIn(s, DigitSet)

\* (?:25[0-5]|2[0-4][0-9]|[01]?[0-9][0-9]?)
IsOctet(s) == IsDigits(s, 3) /\ DigitsValue(s, 10, 0) <= 255

\* /^(?:octet\.){3}octet$/
MatchesIPv4(s) ==
    LET parts == Split(s, ".")
    IN  Len(parts) = 4 /\ \A i \in 1..4 : IsOctet(parts[i])

\* (?:[0-9]|[1-2][0-9]|3[0-2]) and (?:[0-9]|[1-9][0-9]|1[0-1][0-9]|12[0-8]):
\* a number up to max without a leading zero
IsPrefixLength(s, max) ==
    /\ IsDigits(s, 3)
    /\ (Len(s) > 1 => CharAt(s, 1) # "0")
    /\ DigitsValue(s, 10, 0) <= max

MatchesIPv4Cidr(s) ==
    LET parts == Split(s, "/")
    IN  Len(parts) = 2 /\ MatchesIPv4(parts[1]) /\ IsPrefixLength(parts[2], 32)

\* /^([0-9a-fA-F]{0,4}:){1,7}[0-9a-fA-F]{0,4}\/prefix$/
MatchesIPv6Cidr(s) ==
    LET parts == Split(s, "/")
        groups == Split(parts[1], ":")
    IN  /\ Len(parts) = 2
        /\ Len(groups) \in 2..8
        /\ \A i \in 1..Len(groups) : Len(groups[i]) <= 4 /\ AllIn(groups[i], HexSet)
        /\ IsPrefixLength(parts[2], 128)

\* the text from position from on ends in ([0-9a-fA-F0-9:]+:+)+[0-9a-fA-F]+
\* taken from some position on: hex digits at the end, a colon before them
\* and before that colon one more character, a hex digit or a colon
EndsAsIPv6(s, from) ==
    LET colon == LastIndexOf(s, ":")
    IN  /\ colon > from
        /\ colon < Len(s)
        /\ AllIn(SliceFrom(s, colon + 1), HexSet)
        /\ CharAt(s, colon - 1) \in HexSet \cup {":"}

\* /^([0-9a-fA-F0-9:]+:+)+[0-9a-fA-F]+$/
MatchesIPv6(s) == AllIn(s, HexSet \cup {":"}) /\ EndsAsIPv6(s, 1)

\* /^[A-Za-z0-9+/]{43}=$/
MatchesKey(s) ==
    Len(s) = 44 /\ CharAt(s, 44) = "=" /\ AllIn(SubSeq(s, 1, 43), Base64Set)

\* /^([^:]+|\[[0-9a-fA-F0-9:]+\]):\d{1,5}$/
MatchesEndpoint(s) ==
    LET colon == LastIndexOf(s, ":")
        host == SubSeq(s, 1, colon - 1)
    IN  /\ colon > 1
        /\ IsDigits(SliceFrom(s, colon + 1), 5)
        /\ \/ ~Includes(host, ":")
           \/ /\ Len(host) >= 3
              /\ CharAt(host, 1) = "[" /\ CharAt(host, Len(host)) = "]"
              /\ AllIn(SubSeq(host, 2, Len(host) - 1), HexSet \cup {":"})

\* /^[^:]+|([0-9a-fA-F0-9:]+:+)+[0-9a-fA-F]+$/: the first alternative is met by
\* any text that does not start with a colon
MatchesHost(s) == CharAt(s, 1) # ":" \/ EndsAsIPv6(s, 1)

validateIPAddress(ip) ==
    IF ip = "" THEN "IP address is required"
    ELSE IF ~MatchesIPv4(ip) /\ ~MatchesIPv6(ip) THEN "Invalid IP address format"
    ELSE ""

validateCIDR(cidr) ==
    IF cidr = "" THEN "CIDR is required"
    ELSE IF ~MatchesIPv4Cidr(cidr) /\ ~MatchesIPv6Cidr(cidr)
         THEN "Invalid CIDR format (e.g., 192.168.1.0/24 or fd00::/64)"
    ELSE ""

validatePort(port) ==
    IF port.t = "undefined" THEN ""
    ELSE IF port.t = "number" /\ (port.n < 1 \/ port.n > 65535)
         THEN "Port must be between 1 and 65535"
    ELSE ""

validatePublicKey(key) ==
    IF key = "" THEN "Public key is required"
    ELSE IF ~MatchesKey(key) THEN "Invalid Public key"
    ELSE ""

validatePrivateKey(key) ==
    IF key = "" THEN "Private key is required"
    ELSE IF ~MatchesKey(key) THEN "Invalid Private key"
    ELSE ""

validatePresharedKey(key) ==
    IF ~Truthy(key) THEN ""
    ELSE IF ~MatchesKey(key.s) THEN "Invalid Preshared key"
    ELSE ""

validateEndpoint(endpoint) ==
    IF ~Truthy(endpoint) THEN ""
    ELSE IF ~MatchesEndpoint(endpoint.s)
         THEN "Invalid endpoint format (e.g., example.com:51820)"
    ELSE ""

validateHost(host) ==
    IF ~Truthy(host) THEN ""
    ELSE IF ~MatchesHost(host.s)
         THEN "Invalid host format (e.g., example.com, 1.1.1.1, 2001:db8::1)"
    ELSE ""

(***************************************************************************)
(* Data model                                                              *)
(***************************************************************************)
\* the peer a [Peer] header starts
EmptyPeer ==
    [publicKey |-> "", allowedIPs |-> <<>>, endpoint |-> Undefined,
     persistentKeepalive |-> Undefined, presharedKey |-> Undefined,
     configId |-> Undefined]

\* the per-config AmneziaWG overrides of a config that has none: amneziaWG
\* absent or {}, every field reading as undefined
NoOverride ==
    [Jc |-> Undefined, Jmin |-> Undefined, Jmax |-> Undefined,
     I1 |-> Undefined, I2 |-> Undefined, I3 |-> Undefined, I4 |-> Undefined,
     I5 |-> Undefined]

\* the interface parseWireGuardConfig starts from; fields it does not set
\* read as undefined
EmptyInterface ==
    [privateKey |-> "", address |-> <<>>, listenPort |-> Undefined,
     dns |-> <<>>, endpoint |-> Undefined, host |-> Undefined,
     postUp |-> Undefined, postDown |-> Undefined]

(***************************************************************************)
(* parseWireGuardConfig                                                    *)
(***************************************************************************)
\* the locals of parseWireGuardConfig before the first line; currentPeer is
\* <<>> for null and <<peer>> otherwise, error is "" until a throw
ParserStart ==
    [currentSection |-> "null", interfaceConfig |-> EmptyInterface,
     peers |-> <<>>, currentPeer |-> <<>>, error |-> ""]

Throw(p, message) == [p EXCEPT !.error = message]

\* a '#' branch that looks at every section
ParseCommentAnySection(p, line) ==
    IF StartsWith(line, "#") /\ Includes(line, "=")
    THEN LET i == IndexOf(line, "=")
             key == Trim(SubSeq(line, 2, i - 1))
             value == Trim(SliceFrom(line, i + 1))
         IN  IF ToLowerCase(key) = "endpoint"
             THEN [p EXCEPT !.interfaceConfig.endpoint = Str(value)]
             ELSE p
    ELSE p

\* the special-cased comment inside [Interface]
ParseComment(p, line) ==
    IF StartsWith(line, "#") /\ p.currentSection = "interface" /\ Includes(line, "=")
    THEN LET i == IndexOf(line, "=")
             key == Trim(SubSeq(line, 2, i - 1))
             value == Trim(SliceFrom(line, i + 1))
         IN  IF ToLowerCase(key) = "endpoint"
             THEN [p EXCEPT !.interfaceConfig.endpoint = Str(value)]
             ELSE p
    ELSE p

ParseInterfaceKey(p, key, value) ==
    LET k == ToLowerCase(key)
    IN  CASE k = "privatekey" -> [p EXCEPT !.interfaceConfig.privateKey = value]
          [] k = "address" ->
               [p EXCEPT !.interfaceConfig.address = TrimAll(Split(value, ","))]
          [] k = "listenport" -> [p EXCEPT !.interfaceConfig.listenPort = ParseInt(value)]
          [] k = "dns" -> [p EXCEPT !.interfaceConfig.dns = TrimAll(Split(value, ","))]
          [] k = "mtu" -> p
          [] k = "postup" ->
               [p EXCEPT !.interfaceConfig.postUp = Str(ReplaceAll(value, ";", "\n"))]
          [] k = "postdown" ->
               [p EXCEPT !.interfaceConfig.postDown = Str(ReplaceAll(value, ";", "\n"))]
          [] OTHER -> p

ParseKeepalive(p, value) ==
    LET keepalive == ParseInt(value)
    IN  IF keepalive.t = "NaN" \/ keepalive.n < 0
        THEN Throw(p, "Invalid persistent keepalive: " \o value
                      \o ". Must be a non-negative number")
        ELSE [p EXCEPT !.currentPeer[1].persistentKeepalive = keepalive]

ParsePeerKey(p, key, value) ==
    LET k == ToLowerCase(key)
    IN  CASE k = "publickey" -> [p EXCEPT !.currentPeer[1].publicKey = value]
          [] k = "allowedips" ->
               [p EXCEPT !.currentPeer[1].allowedIPs = TrimAll(Split(value, ","))]
          [] k = "endpoint" -> [p EXCEPT !.currentPeer[1].endpoint = Str(value)]
          [] k = "persistentkeepalive" -> ParseKeepalive(p, value)
          [] k = "presharedkey" -> [p EXCEPT !.currentPeer[1].presharedKey = Str(value)]
          [] OTHER -> p

\* a [Peer] header that commits the peer but goes on filling the same one
ParsePeerHeaderKeepsPeer(p) ==
    [p EXCEPT !.currentSection = "peer",
              !.peers = IF p.currentPeer # <<>> THEN Append(@, p.currentPeer[1]) ELSE @,
              !.currentPeer = IF p.currentPeer # <<>> THEN @ ELSE <<EmptyPeer>>]

\* a [Peer] header
ParsePeerHeader(p) ==
    [p EXCEPT !.currentSection = "peer",
              !.peers = IF p.currentPeer # <<>> THEN Append(@, p.currentPeer[1]) ELSE @,
              !.currentPeer = <<EmptyPeer>>]

\* a Key = Value line inside a section
ParseKeyValue(p, line) ==
    LET i == IndexOf(line, "=")
        key == Trim(SubSeq(line, 1, i - 1))
        value == Trim(SliceFrom(line, i + 1))
    IN  IF p.currentSection = "interface" THEN ParseInterfaceKey(p, key, value)
        ELSE IF p.currentSection = "peer" /\ p.currentPeer # <<>>
             THEN ParsePeerKey(p, key, value)
        ELSE p

\* the loop body of the embedded parser of ImportConfig.tsx, which passes over
\* every line met before the first header
ParseLineSkipsOutside(p, line) ==
    IF line = "" THEN p
    ELSE LET q == ParseComment(p, line)
         IN  IF line = "[Interface]" THEN [q EXCEPT !.currentSection = "interface"]
             ELSE IF line = "[Peer]" THEN ParsePeerHeader(q)
             ELSE IF q.currentSection = "null" THEN q
             ELSE IF ~Includes(line, "=")
                  THEN Throw(q, "Invalid configuration line: \"" \o line
                                \o "\". Expected format: Key = Value")
             ELSE ParseKeyValue(q, line)

\* one iteration of the loop over the trimmed lines
ParseLine(p, line) ==
    IF line = "" THEN p
    ELSE LET q == ParseComment(p, line)
         IN  IF line = "[Interface]" THEN [q EXCEPT !.currentSection = "interface"]
             ELSE IF line = "[Peer]" THEN ParsePeerHeader(q)
             ELSE IF q.currentSection = "null"
                  THEN IF Includes(line, "=")
                       THEN Throw(q, "Configuration line \"" \o line
                                     \o "\" found outside of [Interface] or [Peer] section")
                       ELSE q
             ELSE IF ~Includes(line, "=")
                  THEN Throw(q, "Invalid configuration line: \"" \o line
                                \o "\". Expected format: Key = Value")
             ELSE ParseKeyValue(q, line)

\* the loop: lines after a throw are not read
RECURSIVE ParseLines(_, _)
ParseLines(p, lines) ==
    IF lines = <<>> \/ p.error # "" THEN p
    ELSE ParseLines(ParseLine(p, Head(lines)), Tail(lines))

\* after the loop: add the last peer if there is one
ParseEnd(p) ==
    [p EXCEPT !.peers = IF p.currentPeer # <<>> THEN Append(@, p.currentPeer[1]) ELSE @,
              !.currentPeer = <<>>]

\* the config parseWireGuardConfig returns from the locals; id is the uuid
\* drawn and now the clock
ParsedConfig(p, configName, id, now) ==
    [id |-> id,
     name |-> IF configName # "" THEN configName ELSE "Imported Configuration",
     interface |-> p.interfaceConfig,
     peers |-> p.peers,
     enableAllPeers |-> FALSE,
     amneziaWG |-> NoOverride,
     createdAt |-> now,
     updatedAt |-> now]

\* parseWireGuardConfig(content, configName): the error thrown ("" if none)
\* and the config returned
parseWireGuardConfig(content, configName, id, now) ==
    LET p == ParseLines(ParserStart, TrimAll(Split(content, "\n")))
    IN  [error |-> p.error,
         config |-> ParsedConfig(ParseEnd(p), configName, id, now)]

(***************************************************************************)
(* generateWireGuardConfig and peerFromConfig                              *)
(***************************************************************************)
\* addr.replace(/\/(\d+)$/, by): a trailing /digits is replaced
ReplacePrefixLength(addr, by) ==
    LET slashes == {i \in 1..Len(addr) : CharAt(addr, i) = "/"}
        i == IF slashes = {} THEN 0 ELSE MaxOf(slashes)
    IN  IF i # 0 /\ i < Len(addr)
           /\ \A j \in (i + 1)..Len(addr) : DigitValue(CharAt(addr, j), 10) >= 0
        THEN SubSeq(addr, 1, i - 1) \o by
        ELSE addr

MapAllowedIP(addr) ==
    IF Includes(addr, ".") THEN ReplacePrefixLength(addr, "/32")
    ELSE IF Includes(addr, ":") THEN ReplacePrefixLength(addr, "/128")
    ELSE addr

peerFromConfig(config, settings) ==
    [publicKey |-> getPublicKey(config.interface.privateKey),
     allowedIPs |-> [i \in 1..Len(config.interface.address) |->
                        MapAllowedIP(config.interface.address[i])],
     endpoint |-> config.interface.endpoint,
     presharedKey |-> Str(""),
     persistentKeepalive |-> settings.persistentKeepalive,
     configId |-> Str(config.id)]

\* seq.filter(keep), keep given as the set of indexes kept
RECURSIVE FilterSeq(_, _)
FilterSeq(seq, keep) ==
    IF seq = <<>> THEN <<>>
    ELSE LET rest == FilterSeq(SubSeq(seq, 1, Len(seq) - 1), keep)
         IN  IF Len(seq) \in keep THEN Append(rest, seq[Len(seq)]) ELSE rest

\* an expansion that takes every other config, whatever the explicit peers are
ExpandedPeersUnfiltered(settings, config, allConfigs) ==
    IF config.enableAllPeers /\ allConfigs.defined
    THEN LET all == allConfigs.values
             others == {i \in 1..Len(all) : all[i].id # config.id}
             made == FilterSeq(all, others)
         IN  config.peers \o [i \in 1..Len(made) |-> peerFromConfig(made[i], settings)]
    ELSE config.peers

\* an expansion that puts the peers made of the other configs first
ExpandedPeersSynthesizedFirst(settings, config, allConfigs) ==
    IF config.enableAllPeers /\ allConfigs.defined
    THEN LET all == allConfigs.values
             others == {i \in 1..Len(all) :
                          /\ all[i].id # config.id
                          /\ all[i].interface.privateKey # config.interface.privateKey}
             fresh == {i \in others :
                          \A k \in 1..Len(config.peers) :
                              config.peers[k].publicKey
                                  # getPublicKey(all[i].interface.privateKey)}
             made == FilterSeq(all, fresh)
         IN  [i \in 1..Len(made) |-> peerFromConfig(made[i], settings)] \o config.peers
    ELSE config.peers

\* the peers generateWireGuardConfig writes: config.peers, then with
\* enableAllPeers the peers made of the other configs.  allConfigs is
\* [defined, values]: the optional parameter and Object.values of it.
ExpandedPeers(settings, config, allConfigs) ==
    IF config.enableAllPeers /\ allConfigs.defined
    THEN LET all == allConfigs.values
             others == {i \in 1..Len(all) :
                          /\ all[i].id # config.id
                          /\ all[i].interface.privateKey # config.interface.privateKey}
             fresh == {i \in others :
                          \A k \in 1..Len(config.peers) :
                              config.peers[k].publicKey
                                  # getPublicKey(all[i].interface.privateKey)}
             made == FilterSeq(all, fresh)
         IN  config.peers \o [i \in 1..Len(made) |-> peerFromConfig(made[i], settings)]
    ELSE config.peers

\* config.peers as a generation that pushed the synthesized peers onto it
\* would leave it
PeersAfterPush(settings, config, allConfigs) ==
    ExpandedPeers(settings, config, allConfigs)

\* config.peers as generateWireGuardConfig leaves it: peers.concat(...) builds
\* a new array, and forEach only reads
PeersAfterGeneration(settings, config, allConfigs) ==
    config.peers

\* a PersistentKeepalive line written for every defined value
KeepaliveLineWhenDefined(peer) ==
    IF peer.persistentKeepalive.t # "undefined"
    THEN "PersistentKeepalive = " \o Interp(peer.persistentKeepalive) \o "\n"
    ELSE ""

\* the PersistentKeepalive line of a peer block, "" when it is left out
KeepaliveLine(peer) ==
    IF peer.persistentKeepalive.t # "undefined"
       /\ peer.persistentKeepalive.t = "number" /\ peer.persistentKeepalive.n > 0
    THEN "PersistentKeepalive = " \o Interp(peer.persistentKeepalive) \o "\n"
    ELSE ""

PeerBlock(peer) ==
    "\n[Peer]\n"
    \o "PublicKey = " \o peer.publicKey \o "\n"
    \o (IF Len(peer.allowedIPs) > 0
        THEN "AllowedIPs = " \o Join(peer.allowedIPs, ", ") \o "\n" ELSE "")
    \o (IF Truthy(peer.endpoint)
        THEN "Endpoint = " \o Interp(peer.endpoint) \o "\n" ELSE "")
    \o KeepaliveLine(peer)
    \o (IF Truthy(peer.presharedKey)
        THEN "PresharedKey = " \o Interp(peer.presharedKey) \o "\n" ELSE "")

RECURSIVE PeerBlocks(_)
PeerBlocks(peers) ==
    IF peers = <<>> THEN "" ELSE PeerBlock(Head(peers)) \o PeerBlocks(Tail(peers))

\* the [Interface] block with Address written before the advisory endpoint
InterfaceBlockAddressFirst(settings, config) ==
    "[Interface]\n"
    \o "PrivateKey = " \o config.interface.privateKey \o "\n"
    \o "# PublicKey = " \o getPublicKey(config.interface.privateKey) \o "\n"
    \o (IF Len(config.interface.address) > 0
        THEN "Address = " \o Join(config.interface.address, ", ") \o "\n" ELSE "")
    \o (IF Truthy(config.interface.endpoint)
        THEN "# Endpoint = " \o Interp(config.interface.endpoint) \o "\n" ELSE "")
    \o (IF Truthy(config.interface.listenPort)
        THEN "ListenPort = " \o Interp(config.interface.listenPort) \o "\n" ELSE "")
    \o (IF Len(config.interface.dns) > 0
        THEN "DNS = " \o Join(config.interface.dns, ", ") \o "\n" ELSE "")
    \o (IF Truthy(settings.mtu) THEN "MTU = " \o Interp(settings.mtu) \o "\n" ELSE "")
    \o (IF Truthy(config.interface.postUp)
        THEN "PostUp = " \o ReplaceNewlines(Interp(config.interface.postUp), "; ") \o "\n"
        ELSE "")
    \o (IF Truthy(config.interface.postDown)
        THEN "PostDown = " \o ReplaceNewlines(Interp(config.interface.postDown), "; ") \o "\n"
        ELSE "")

InterfaceBlock(settings, config) ==
    "[Interface]\n"
    \o "PrivateKey = " \o config.interface.privateKey \o "\n"
    \o "# PublicKey = " \o getPublicKey(config.interface.privateKey) \o "\n"
    \o (IF Truthy(config.interface.endpoint)
        THEN "# Endpoint = " \o Interp(config.interface.endpoint) \o "\n" ELSE "")
    \o (IF Len(config.interface.address) > 0
        THEN "Address = " \o Join(config.interface.address, ", ") \o "\n" ELSE "")
    \o (IF Truthy(config.interface.listenPort)
        THEN "ListenPort = " \o Interp(config.interface.listenPort) \o "\n" ELSE "")
    \o (IF Len(config.interface.dns) > 0
        THEN "DNS = " \o Join(config.interface.dns, ", ") \o "\n" ELSE "")
    \o (IF Truthy(settings.mtu) THEN "MTU = " \o Interp(settings.mtu) \o "\n" ELSE "")
    \o (IF Truthy(config.interface.postUp)
        THEN "PostUp = " \o ReplaceNewlines(Interp(config.interface.postUp), "; ") \o "\n"
        ELSE "")
    \o (IF Truthy(config.interface.postDown)
        THEN "PostDown = " \o ReplaceNewlines(Interp(config.interface.postDown), "; ") \o "\n"
        ELSE "")

generateWireGuardConfig(settings, config, allConfigs) ==
    InterfaceBlock(settings, config)
    \o PeerBlocks(ExpandedPeers(settings, config, allConfigs))

(***************************************************************************)
(* The collection (ConfigContext) and the state of the operations          *)
(***************************************************************************)
VARIABLES
    configs,      \* ConfigContext.configs: the entries [key, value] of the object,
                  \* in property order
    settings,     \* ConfigContext.settings
    now,          \* the clock new Date() reads
    phase,        \* text import: "idle", "parsing", "imported" or "failed"
    lines,        \* text import: the lines of the file read so far
    parser,       \* text import: the locals of parseWireGuardConfig
    alerts,       \* the alerts shown so far
    editedConfig, \* ConfigDetail: the config in the editor
    output,       \* the text generateWireGuardConfig gave, "" before
    backupFile,   \* the backup file handleBackup has downloaded, NoBackup before
    view,         \* the view shown: "list" or "detail"
    isSaving,     \* ConfigDetail: the save button is waiting for its timer
    pendingSave,  \* the timers handleSave has set: configToSave and the ids of
                  \* the configs that the onSave of the click sees
    edits,        \* how many changes the user has made in the editor
    storage,      \* localStorage: the items wiregen.configs and wiregen.settings
    isInitialized \* ConfigProvider: the load effect has run

vars == <<configs, settings, now, phase, lines, parser, alerts,
          editedConfig, output, backupFile, view, isSaving, pendingSave, edits,
          storage, isInitialized>>

importVars == <<phase, lines, parser, alerts>>

codecVars == <<editedConfig, output, backupFile>>

\* no backup file has been downloaded
NoBackup == [written |-> FALSE]

editorVars == <<view, isSaving, pendingSave, edits>>

persistVars == <<storage, isInitialized>>

Keys(cfgs) == {cfgs[i].key : i \in 1..Len(cfgs)}

Range(seq) == {seq[i] : i \in 1..Len(seq)}

\* setConfigs(prev => ({...prev, [config.id]: config})): an existing key keeps
\* its place, a new key comes last
PutConfig(cfgs, config) ==
    IF config.id \in Keys(cfgs)
    THEN [i \in 1..Len(cfgs) |->
            IF cfgs[i].key = config.id THEN [key |-> config.id, value |-> config]
            ELSE cfgs[i]]
    ELSE Append(cfgs, [key |-> config.id, value |-> config])

addConfig(cfgs, config) == PutConfig(cfgs, config)

\* Object.values(configs)
Values(cfgs) == [i \in 1..Len(cfgs) |-> cfgs[i].value]

DefaultSettings ==
    [IPv4CIDR |-> Str("10.0.10.0/24"), IPv6CIDR |-> Str("fd10::/64"),
     mtu |-> Num(1380), listenPort |-> Num(51821), persistentKeepalive |-> Undefined,
     amneziaWG |-> [enabled |-> FALSE,
                    H1 |-> Undefined, H2 |-> Undefined, H3 |-> Undefined, H4 |-> Undefined,
                    S1 |-> Undefined, S2 |-> Undefined,
                    Jc |-> Undefined, Jmin |-> Undefined, Jmax |-> Undefined,
                    I1 |-> Undefined, I2 |-> Undefined, I3 |-> Undefined,
                    I4 |-> Undefined, I5 |-> Undefined]]

(***************************************************************************)
(* Browser storage: the load and save effects of ConfigProvider            *)
(***************************************************************************)
\* JSON.stringify of a Date: the text toISOString gives
toISOString(time) == Str(ToString(time))

\* new Date(text) of such a text
NewDate(value) == DigitsValue(value.s, 10, 0)

Null == [t |-> "null", n |-> 0, s |-> ""]

\* JSON.stringify of a number or text: NaN is written as null; a member that
\* is undefined is left out of the text, and stays undefined here
JsonValue(value) == IF value = NaN THEN Null ELSE value

\* the members that hold numbers
NumberMembers ==
    {"mtu", "listenPort", "persistentKeepalive",
     "H1", "H2", "H3", "H4", "S1", "S2", "Jc", "Jmin", "Jmax"}

JsonMembers(object) ==
    [k \in DOMAIN object |->
        IF k \in NumberMembers THEN JsonValue(object[k]) ELSE object[k]]

JsonSettings(stngs) == [JsonMembers(stngs) EXCEPT !.amneziaWG = JsonMembers(@)]

JsonConfig(config) ==
    [config EXCEPT !.createdAt = toISOString(@), !.updatedAt = toISOString(@),
                   !.interface = JsonMembers(@),
                   !.peers = [i \in DOMAIN @ |-> JsonMembers(@[i])],
                   !.amneziaWG = JsonMembers(@)]

\* an item of localStorage that has never been set or has been removed
Absent == [present |-> FALSE]

\* localStorage.setItem('wiregen.configs', JSON.stringify(configs))
StoredConfigs(cfgs) ==
    [present |-> TRUE,
     json |-> [i \in 1..Len(cfgs) |-> [key |-> cfgs[i].key,
                                        value |-> JsonConfig(cfgs[i].value)]]]

\* localStorage.setItem('wiregen.settings', JSON.stringify(settings))
StoredSettings(stngs) == [present |-> TRUE, json |-> JsonSettings(stngs)]

\* JSON.parse(savedConfigs, reviver): createdAt and updatedAt become dates
LoadedConfigs(item) ==
    IF item.present
    THEN [i \in 1..Len(item.json) |->
             [key |-> item.json[i].key,
              value |-> [item.json[i].value EXCEPT !.createdAt = NewDate(@),
                                                   !.updatedAt = NewDate(@)]]]
    ELSE <<>>

\* { ...DEFAULT_SETTINGS, ...parsedSettings }: a member the text does not
\* hold keeps the value of DEFAULT_SETTINGS
LoadedSettings(item) ==
    IF item.present
    THEN [k \in DOMAIN DefaultSettings |->
             IF k = "amneziaWG" THEN item.json.amneziaWG
             ELSE IF item.json[k] = Undefined THEN DefaultSettings[k]
             ELSE item.json[k]]
    ELSE DefaultSettings

\* a save effect: it returns before isInitialized and sets its item otherwise
saveEffect(initialized, item, written) == IF initialized THEN written ELSE item

\* the save effects, which run after a render in which configs or settings
\* has changed
SaveEffects ==
    /\ storage' =
          [configs |-> IF configs' # configs
                       THEN saveEffect(isInitialized, storage.configs,
                                       StoredConfigs(configs'))
                       ELSE storage.configs,
           settings |-> IF settings' # settings
                        THEN saveEffect(isInitialized, storage.settings,
                                        StoredSettings(settings'))
                        ELSE storage.settings]
    /\ UNCHANGED isInitialized

\* the provider after its mount: the load effect has set isInitialized and
\* the save effects have written what it loaded
AfterMount ==
    /\ isInitialized = TRUE
    /\ storage = [configs |-> StoredConfigs(configs),
                  settings |-> StoredSettings(settings)]

\* the ids uuidv4() draws
UUIDs == {"id-1", "id-2"}

\* a config already in the collection
StoredConfig ==
    [id |-> "id-1", name |-> "office",
     interface |-> [EmptyInterface EXCEPT
                      !.privateKey = "DDDDDDDDDDDDDDDDDDDDDDDDDDDDDDDDDDDDDDDDDDA=",
                      !.address = <<"10.0.10.1/24">>,
                      !.listenPort = Num(51821)],
     peers |-> <<>>, enableAllPeers |-> FALSE, amneziaWG |-> NoOverride,
     createdAt |-> 0, updatedAt |-> 0]

(***************************************************************************)
(* Text import: ConfigList.handleFileChange, reader.onload                 *)
(***************************************************************************)
\* how many lines an imported file has at most
MaxLines == 4

\* the lines a file is made of
FileLines ==
    {"", "[Interface]", " [Peer]\r",
     "PrivateKey = AAAAAAAAAAAAAAAAAAAAAAAAAAAAAAAAAAAAAAAAAAA=",
     "PublicKey = L+V9o0fNYkMVKNqsX7spBzD/9oSvxM/C7ZCZX1jLO3Q=",
     "publickey=jUd41n3XYa3yXBzyBvWqlLhYgRef5RiBD7jwo70U+Rw=",
     "AllowedIPs = 10.0.0.2/32, 10.0.0.3/32",
     "PersistentKeepalive = 25", "PersistentKeepalive = 0",
     "PersistentKeepalive = -1", "PersistentKeepalive = 2x",
     "PersistentKeepalive = soon",
     "# note", "# key = value", "# Endpoint = vpn.example.com",
     "hello", "Foo = bar"}

InitEditorClosed ==
    /\ view = "list"
    /\ isSaving = FALSE
    /\ pendingSave = <<>>
    /\ edits = 0

InitParse ==
    /\ settings = DefaultSettings
    /\ now = 1
    /\ configs = <<[key |-> StoredConfig.id, value |-> StoredConfig]>>
    /\ phase = "idle"
    /\ lines = <<>>
    /\ parser = ParserStart
    /\ alerts = 0
    /\ editedConfig = StoredConfig
    /\ output = ""
    /\ backupFile = NoBackup
    /\ InitEditorClosed
    /\ AfterMount

\* handleFileChange: a file is chosen and read; reader.onload starts the parse
ChooseFile ==
    /\ phase = "idle"
    /\ phase' = "parsing"
    /\ UNCHANGED <<configs, settings, now, lines, parser, alerts, codecVars, editorVars, persistVars>>

\* a catch block that hands on what was parsed before the throw
CatchImportErrorKeepsPartial ==
    /\ phase' = "failed"
    /\ alerts' = alerts + 1
    /\ configs' = addConfig(configs, ParsedConfig(ParseEnd(parser'), "wg0", "id-2", now))

\* the catch block of reader.onload: alert('Failed to import config')
CatchImportError ==
    /\ phase' = "failed"
    /\ alerts' = alerts + 1
    /\ configs' = configs

\* onImport for the parsed config: it joins the collection and the detail
\* view opens on it
handleConfigImported(config) ==
    /\ configs' = addConfig(configs, config)
    /\ view' = "detail"
    /\ editedConfig' = config

\* one iteration of the loop of parseWireGuardConfig, on the next line of the file
ReadLine(raw) ==
    /\ phase = "parsing"
    /\ Len(lines) < MaxLines
    /\ lines' = Append(lines, raw)
    /\ parser' = ParseLine(parser, Trim(raw))
    /\ IF parser'.error # ""
       THEN CatchImportError
       ELSE UNCHANGED <<phase, alerts, configs>>
    /\ UNCHANGED <<settings, now, codecVars, editorVars>>
    /\ SaveEffects

\* the end of the file: the last peer is added, the config is returned and
\* handed to onImport (handleConfigImported, addConfig)
EndOfInput(id) ==
    /\ phase = "parsing"
    /\ id \notin Keys(configs)
    /\ parser' = ParseEnd(parser)
    /\ handleConfigImported(ParsedConfig(parser', "wg0", id, now))
    /\ phase' = "imported"
    /\ UNCHANGED <<settings, now, lines, alerts, output, backupFile, isSaving, pendingSave, edits>>
    /\ SaveEffects

NextParse ==
    \/ ChooseFile
    \/ \E raw \in FileLines : ReadLine(raw)
    \/ \E id \in UUIDs : EndOfInput(id)

SpecParse == InitParse /\ [][NextParse]_vars

(***************************************************************************)
(* Generation of the config text, and import of the generated text         *)
(***************************************************************************)
\* how many peers a config has at most
MaxPeers == 2

\* how many other configs the collection holds at most
MaxOthers == 2

SeqsUpTo(S, n) == UNION {[1..k -> S] : k \in 0..n}

PrivateKeyOf(i) == KeyPairs[i][1]

PublicKeyOf(i) == KeyPairs[i][2]

BaseInterface ==
    [EmptyInterface EXCEPT !.privateKey = PrivateKeyOf(1), !.address = <<"10.0.10.2/24">>]

\* an interface with every field filled
FullInterface ==
    [BaseInterface EXCEPT !.address = <<"10.0.10.2/24", "fd10::2/64">>,
                          !.listenPort = Num(51820),
                          !.dns = <<"1.1.1.1">>,
                          !.endpoint = Str("vpn.example.com"),
                          !.postUp = Str("up a"),
                          !.postDown = Str("down a")]

\* the interfaces of the configs generated: BaseInterface with one field
\* changed, and FullInterface
Interfaces ==
    {BaseInterface}
    \cup {[BaseInterface EXCEPT !.address = a] :
             a \in {<<>>, <<"10.0.10.2/24", "fd10::2/64">>}}
    \cup {[BaseInterface EXCEPT !.listenPort = Num(51820)]}
    \cup {[BaseInterface EXCEPT !.dns = d] : d \in {<<"1.1.1.1">>, <<"1.1.1.1", "fd10::1">>}}
    \cup {[BaseInterface EXCEPT !.endpoint = Str("vpn.example.com")]}
    \cup {[BaseInterface EXCEPT !.postUp = Str(u)] : u \in {"up a", "up a\nup b"}}
    \cup {[BaseInterface EXCEPT !.postDown = Str("down a")]}
    \cup {FullInterface}

BasePeer ==
    [EmptyPeer EXCEPT !.publicKey = PublicKeyOf(3), !.allowedIPs = <<"10.0.0.2/32">>]

\* peers of each keepalive: BasePeer, which has none, and the peer of another
\* key with 0 and with 25
KeepalivePeers ==
    {BasePeer}
    \cup {[BasePeer EXCEPT !.publicKey = PublicKeyOf(4), !.persistentKeepalive = k] :
             k \in {Num(0), Num(25)}}

\* the peers entered by hand: the peers of each keepalive, a peer with
\* nothing but a key, and one with every field filled
Peers ==
    KeepalivePeers
    \cup {[EmptyPeer EXCEPT !.publicKey = PublicKeyOf(3)],
          [publicKey |-> PublicKeyOf(4), allowedIPs |-> <<"10.0.0.3/32", "fd10::3/128">>,
           endpoint |-> Str("peer.example.com:51820"), persistentKeepalive |-> Num(15),
           presharedKey |-> Str(PrivateKeyOf(4)), configId |-> Undefined]}

Config(id, interface, peers, enableAllPeers) ==
    [id |-> id, name |-> "wg-" \o id, interface |-> interface, peers |-> peers,
     enableAllPeers |-> enableAllPeers, amneziaWG |-> NoOverride,
     createdAt |-> 0, updatedAt |-> 0]

\* the edited config as the collection holds it
StoredEdited == Config("id-1", BaseInterface, <<>>, FALSE)

\* the other configs of a collection: one whose key an explicit peer may
\* already carry, one whose private key differs from the edited config's in a
\* clamped bit only, and one with the very same private key
Others ==
    {Config("id-3", [EmptyInterface EXCEPT !.privateKey = PrivateKeyOf(3),
                                          !.address = <<"10.0.10.3/24", "fd10::3/64">>,
                                          !.endpoint = Str("c.example.com:51820")],
            <<>>, FALSE),
     Config("id-4", [EmptyInterface EXCEPT !.privateKey = PrivateKeyOf(2),
                                          !.address = <<"10.0.10.4">>],
            <<>>, FALSE),
     Config("id-5", BaseInterface, <<>>, FALSE)}

Entries(seq) == [i \in 1..Len(seq) |-> [key |-> seq[i].id, value |-> seq[i]]]

\* the collections: the edited config, then up to MaxOthers other configs of
\* different ids in any order
Collections ==
    {Entries(<<StoredEdited>> \o c) :
        c \in {c \in SeqsUpTo(Others, MaxOthers) :
                 \A i, j \in 1..Len(c) : i # j => c[i].id # c[j].id}}

KeepaliveSettings ==
    {[DefaultSettings EXCEPT !.persistentKeepalive = k] : k \in {Undefined, Num(0), Num(25)}}

InitImportIdle ==
    /\ now = 1
    /\ phase = "idle"
    /\ lines = <<>>
    /\ parser = ParserStart
    /\ alerts = 0
    /\ output = ""
    /\ backupFile = NoBackup
    /\ view = "detail"
    /\ isSaving = FALSE
    /\ pendingSave = <<>>
    /\ edits = 0

\* a collection of one config, with any interface and any peers, open in the
\* editor
InitRoundTrip ==
    /\ InitImportIdle
    /\ settings = DefaultSettings
    /\ \E interface \in Interfaces, peers \in SeqsUpTo(Peers, MaxPeers) :
           editedConfig = Config("id-1", interface, peers, FALSE)
    /\ configs = Entries(<<editedConfig>>)
    /\ AfterMount

\* a config within a collection, with or without enableAllPeers
InitExpand ==
    /\ InitImportIdle
    /\ settings \in KeepaliveSettings
    /\ configs \in Collections
    /\ \E peers \in SeqsUpTo(KeepalivePeers, MaxPeers), enableAllPeers \in BOOLEAN :
           editedConfig = Config("id-1", BaseInterface, peers, enableAllPeers)
    /\ AfterMount

InitCodec == InitRoundTrip \/ InitExpand

\* ConfigDetail: the text area shows the text generated for the edited config
RenderConfigText ==
    /\ output = ""
    /\ LET allConfigs == [defined |-> TRUE, values |-> Values(configs)]
       IN  /\ output' = generateWireGuardConfig(settings, editedConfig, allConfigs)
           /\ editedConfig' =
                 [editedConfig EXCEPT
                     !.peers = PeersAfterGeneration(settings, editedConfig, allConfigs)]
    /\ UNCHANGED <<configs, settings, now, importVars, backupFile, editorVars, persistVars>>

\* handleFileChange and reader.onload on a file that holds the generated text
ImportGenerated(id) ==
    /\ output # ""
    /\ phase = "idle"
    /\ id \notin Keys(configs)
    /\ lines' = Split(output, "\n")
    /\ LET p == ParseLines(ParserStart, TrimAll(lines'))
       IN  IF p.error # ""
           THEN /\ parser' = p
                /\ CatchImportError
                /\ UNCHANGED <<editedConfig, view>>
           ELSE /\ parser' = ParseEnd(p)
                /\ handleConfigImported(ParsedConfig(parser', "wg0", id, now))
                /\ phase' = "imported"
                /\ alerts' = alerts
    /\ UNCHANGED <<settings, now, output, backupFile, isSaving, pendingSave, edits>>
    /\ SaveEffects

NextCodec ==
    \/ RenderConfigText
    \/ \E id \in UUIDs : ImportGenerated(id)

SpecCodec == InitCodec /\ [][NextCodec]_vars

(***************************************************************************)
(* The other generations: the QR code of the editor and the export         *)
(***************************************************************************)
\* the effect of ConfigDetail that draws the QR code of the generated text
generateQRCode ==
    /\ view = "detail"
    /\ LET allConfigs == [defined |-> TRUE, values |-> Values(configs)]
       IN  /\ output' = generateWireGuardConfig(settings, editedConfig, allConfigs)
           /\ editedConfig' =
                 [editedConfig EXCEPT
                     !.peers = PeersAfterGeneration(settings, editedConfig, allConfigs)]
    /\ UNCHANGED <<configs, settings, now, importVars, backupFile, editorVars, persistVars>>

\* the export of the i-th config of the list: the text is generated without
\* the collection and downloaded
handleExportConfig(i) ==
    /\ i \in 1..Len(configs)
    /\ LET allConfigs == [defined |-> FALSE, values |-> <<>>]
           config == configs[i].value
       IN  /\ output' = generateWireGuardConfig(settings, config, allConfigs)
           /\ configs' =
                 [configs EXCEPT
                     ![i].value.peers = PeersAfterGeneration(settings, config, allConfigs)]
    /\ UNCHANGED <<settings, now, editedConfig, backupFile, importVars, editorVars>>
    /\ SaveEffects

NextView ==
    \/ RenderConfigText
    \/ generateQRCode
    \/ \E i \in 1..(1 + MaxOthers) : handleExportConfig(i)

SpecView == InitExpand /\ [][NextView]_vars

(***************************************************************************)
(* The list of configs: deletion and export                                *)
(***************************************************************************)
\* a deletion that also takes the peers made of the deleted config out of
\* the other configs
deleteConfigCascade(cfgs, id) ==
    LET kept == SelectSeq(cfgs, LAMBDA e : e.key # id)
    IN  [i \in 1..Len(kept) |->
            [kept[i] EXCEPT
                !.value.peers = SelectSeq(@, LAMBDA peer : peer.configId # Str(id))]]

\* delete newConfigs[id] on a copy: the other entries stay, in their order
deleteConfig(cfgs, id) ==
    SelectSeq(cfgs, LAMBDA e : e.key # id)

\* the label of the i-th peer in the editor
PeerLabel(cfgs, peer, i) ==
    IF Truthy(peer.configId)
    THEN "Peer from config: "
         \o (IF \E k \in 1..Len(cfgs) :
                   cfgs[k].key = peer.configId.s /\ cfgs[k].value.name # ""
             THEN (CHOOSE e \in {cfgs[k] : k \in 1..Len(cfgs)} :
                      e.key = peer.configId.s).value.name
             ELSE peer.configId.s)
    ELSE "Peer " \o Interp(Num(i))

\* a config that holds a peer made of the config id-3 and a peer entered by
\* hand
Holder ==
    Config("id-1", BaseInterface,
           <<peerFromConfig(CHOOSE c \in Others : c.id = "id-3", DefaultSettings),
             [BasePeer EXCEPT !.publicKey = PublicKeyOf(4)]>>,
           FALSE)

InitList ==
    /\ InitImportIdle
    /\ settings = DefaultSettings
    /\ editedConfig = Holder
    /\ configs \in {Entries(<<Holder>> \o c) :
                       c \in {c \in SeqsUpTo(Others, MaxOthers) :
                                \A i, j \in 1..Len(c) : i # j => c[i].id # c[j].id}}
    /\ AfterMount

\* the confirmed deletion of a config of the list
handleDeleteConfig(id) ==
    /\ \E i \in 1..Len(configs) : configs[i].value.id = id
    /\ configs' = deleteConfig(configs, id)
    /\ view' = "list"
    /\ UNCHANGED <<settings, now, importVars, codecVars, isSaving, pendingSave, edits>>
    /\ SaveEffects

\* the click on a config of the list: the detail view opens on it, and the
\* editor takes the stored config
handleSelectConfig(i) ==
    /\ i \in 1..Len(configs)
    /\ configs[i].key = configs[i].value.id
    /\ ~isSaving
    /\ view' = "detail"
    /\ editedConfig' = configs[i].value
    /\ UNCHANGED <<configs, settings, now, importVars, output, backupFile, isSaving, pendingSave, edits, persistVars>>

NextList ==
    \/ \E i \in 1..Len(configs) : handleDeleteConfig(configs[i].value.id)
    \/ \E i \in 1..(1 + MaxOthers) : handleExportConfig(i)
    \/ \E i \in 1..(1 + MaxOthers) : handleSelectConfig(i)

SpecList == InitList /\ [][NextList]_vars

(***************************************************************************)
(* The collection: backup import, reset, new configs and saves             *)
(***************************************************************************)
\* setConfigs(configs) with an array: its elements under their indexes
ArrayEntries(items) ==
    [i \in 1..Len(items) |-> [key |-> Interp(Num(i - 1)), value |-> items[i]]]

\* replaceAllConfigs: the collection becomes what it is given
replaceAllConfigs(cfgs, given) == given

\* the backup files picked: data.configs is an array of configs, or, as
\* handleBackup writes it, the object of the collection
BackupFiles ==
    {[isArray |-> TRUE, items |-> items,
      settings |-> [DefaultSettings EXCEPT !.persistentKeepalive = Num(25)]] :
        items \in {<<>>, <<Holder>>, <<CHOOSE c \in Others : c.id = "id-3", Holder>>}}
    \cup {[isArray |-> FALSE, items |-> <<Holder>>, settings |-> DefaultSettings]}

\* ImportBackup: reader.onload takes a file whose data.configs is an array
\* for the preview, and handleImport hands the preview to
\* handleBackupImported
handleBackupImported(file) ==
    /\ file.isArray
    /\ ~isSaving
    /\ configs' = replaceAllConfigs(configs, ArrayEntries(file.items))
    /\ settings' = file.settings
    /\ view' = "list"
    /\ UNCHANGED <<now, importVars, codecVars, isSaving, pendingSave, edits>>
    /\ SaveEffects

\* resetAllData: the collection and the settings are set and both items
\* removed; the save effect of the collection, which is a new object, then
\* writes it, and the one of the settings writes them unless they were
\* DEFAULT_SETTINGS itself
resetAllData ==
    /\ configs' = <<>>
    /\ settings' = DefaultSettings
    /\ \E item \in (IF settings = DefaultSettings THEN {Absent} ELSE {})
                    \cup {StoredSettings(DefaultSettings)} :
           storage' = IF isInitialized
                      THEN [configs |-> StoredConfigs(<<>>), settings |-> item]
                      ELSE [configs |-> Absent, settings |-> Absent]
    /\ UNCHANGED isInitialized

\* resetAllData, then the list
handleReset ==
    /\ ~isSaving
    /\ resetAllData
    /\ view' = "list"
    /\ UNCHANGED <<now, importVars, codecVars, isSaving, pendingSave, edits>>

(***************************************************************************)
(* The backup file: handleBackup and the file ImportBackup reads           *)
(***************************************************************************)
\* handleBackup: backupData holds the settings and configs, the object of the
\* collection, which JSON.stringify writes as an object with one member for
\* each id and not as an array
handleBackup ==
    /\ view = "list"
    /\ backupFile' = [written |-> TRUE, isArray |-> FALSE,
                      items |-> [i \in 1..Len(configs) |-> JsonConfig(configs[i].value)],
                      settings |-> JsonSettings(settings)]
    /\ UNCHANGED <<configs, settings, now, importVars, editedConfig, output, editorVars, persistVars>>

\* reader.onload: a file whose data.configs is not an array is refused with
\* an error and gives no preview; the configs of any other file get their
\* dates back
readerOnload(file) ==
    IF file.isArray
    THEN [isArray |-> TRUE,
          items |-> [i \in 1..Len(file.items) |->
                        [file.items[i] EXCEPT !.createdAt = NewDate(@),
                                              !.updatedAt = NewDate(@)]],
          settings |-> file.settings]
    ELSE [isArray |-> FALSE, items |-> <<>>, settings |-> file.settings]

\* the previews ImportBackup can hold: those of the files picked, the
\* downloaded one among them
Previews ==
    BackupFiles \cup (IF backupFile.written THEN {readerOnload(backupFile)} ELSE {})

NextBackup ==
    \/ handleBackup
    \/ \E file \in Previews : handleBackupImported(file)
    \/ \E i \in 1..Len(configs) : handleDeleteConfig(configs[i].value.id)
    \/ handleReset

SpecBackup == InitList /\ [][NextBackup]_vars

\* C24: the file handleBackup writes is accepted by the backup import, and
\* importing it gives the collection, under the same ids and with the same
\* createdAt and updatedAt, and the settings that were backed up
C24_BackupRoundTrip ==
    [][backupFile' # backupFile =>
          \A file \in {readerOnload(backupFile')} :
              /\ file.isArray
              /\ replaceAllConfigs(configs, ArrayEntries(file.items)) = configs
              /\ file.settings = settings]_vars

(***************************************************************************)
(* The settings form: Settings, validateForm and handleSubmit              *)
(***************************************************************************)
\* parseInt(str, 10)
ParseIntDecimal(str) ==
    LET s0 == TrimStart(str)
        neg == StartsWith(s0, "-")
        s1 == IF neg \/ StartsWith(s0, "+") THEN SliceFrom(s0, 2) ELSE s0
    IN  IF s1 = "" \/ DigitValue(CharAt(s1, 1), 10) < 0 THEN NaN
        ELSE Num((IF neg THEN -1 ELSE 1) * DigitsValue(s1, 10, 0))

HFields == {"H1", "H2", "H3", "H4"}

OverrideTexts == {"I1", "I2", "I3", "I4", "I5"}

\* validateAmnezia: the keys of its errors; a comparison with NaN is false
validateAmnezia(amz) ==
    IF ~amz.enabled THEN {}
    ELSE (IF \E j, k \in HFields :
                j # k /\ amz[j] # Undefined /\ amz[k] # Undefined /\ amz[j] = amz[k]
          THEN {"amneziaWG.Hx"} ELSE {})
         \cup {"amneziaWG." \o k : k \in {k \in HFields :
                  amz[k].t = "number" /\ (amz[k].n < 0 \/ amz[k].n > 2147483647)}}
         \cup (IF amz.S1.t = "number" /\ (amz.S1.n > 1132 \/ amz.S1.n <= 0)
               THEN {"amneziaWG.S1"} ELSE {})
         \cup (IF amz.S2.t = "number" /\ (amz.S2.n > 1188 \/ amz.S2.n <= 0)
               THEN {"amneziaWG.S2"} ELSE {})
         \cup (IF amz.S1.t = "number" /\ amz.S2.t = "number" /\ amz.S1.n + 56 = amz.S2.n
               THEN {"amneziaWG.S1S2"} ELSE {})
         \cup {"amneziaWG." \o k : k \in {k \in OverrideTexts :
                  Truthy(amz[k]) /\ ~AllIn(amz[k].s, HexSet)}}
         \cup (IF amz.Jc.t = "number" /\ (amz.Jc.n < 0 \/ amz.Jc.n > 128)
               THEN {"amneziaWG.Jc"} ELSE {})
         \cup (IF amz.Jmin.t = "number" /\ amz.Jmin.n >= 1280
               THEN {"amneziaWG.Jmin"} ELSE {})
         \cup (IF amz.Jmax.t = "number" /\ amz.Jmax.n > 1280
               THEN {"amneziaWG.Jmax"} ELSE {})
         \cup (IF amz.Jmin # Undefined /\ amz.Jmax # Undefined
                  /\ ~(amz.Jmin.t = "number" /\ amz.Jmax.t = "number"
                        /\ amz.Jmax.n > amz.Jmin.n)
               THEN {"amneziaWG.JminJmax"} ELSE {})

validateMTU(mtu) ==
    IF mtu.t = "number" /\ (mtu.n < 1280 \/ mtu.n > 9000)
    THEN "MTU must be between 1280 and 9000" ELSE ""

validatePersistentKeepalive(value) ==
    IF value.t = "number" /\ (value.n < 0 \/ value.n > 65535)
    THEN "Persistent keepalive must be between 0 and 65535" ELSE ""

validateIPv4CIDR(cidr) ==
    IF cidr = "" THEN ""
    ELSE IF ~MatchesIPv4Cidr(cidr) THEN "Invalid IPv4 CIDR format (e.g., 192.168.1.0/24)"
    ELSE ""

validateIPv6CIDR(cidr) ==
    IF cidr = "" THEN ""
    ELSE IF ~MatchesIPv6Cidr(cidr) THEN "Invalid IPv6 CIDR format (e.g., fd00::/64)"
    ELSE ""

\* validateForm: the keys of newErrors
validateForm(formData) ==
    (IF formData.mtu # Undefined /\ validateMTU(formData.mtu) # "" THEN {"mtu"} ELSE {})
    \cup (IF formData.persistentKeepalive # Undefined
             /\ validatePersistentKeepalive(formData.persistentKeepalive) # ""
          THEN {"persistentKeepalive"} ELSE {})
    \cup (IF formData.listenPort # Undefined /\ validatePort(formData.listenPort) # ""
          THEN {"listenPort"} ELSE {})
    \cup (IF Truthy(formData.IPv4CIDR) /\ validateIPv4CIDR(formData.IPv4CIDR.s) # ""
          THEN {"IPv4CIDR"} ELSE {})
    \cup (IF Truthy(formData.IPv6CIDR) /\ validateIPv6CIDR(formData.IPv6CIDR.s) # ""
          THEN {"IPv6CIDR"} ELSE {})
    \cup validateAmnezia(formData.amneziaWG)

\* what is typed into the number fields of the AmneziaWG section, inputs of
\* type number, whose value is a valid floating-point number or ""
AmzNumberInputs ==
    {<<"H1", "5">>, <<"H1", "-1">>, <<"H2", "5">>, <<"H2", "2147483647">>,
     <<"S1", "1">>, <<"S1", "1133">>, <<"S1", ".5">>, <<"S2", "57">>, <<"S2", "0">>,
     <<"Jc", "0">>, <<"Jc", "129">>, <<"Jmin", "50">>, <<"Jmax", "40">>, <<"Jmax", "1281">>}
    \cup {<<k, "">> : k \in {"H1", "H2", "S1", "S2", "Jc", "Jmin", "Jmax"}}

handleAmzNumberChange(formData, field, value) ==
    [formData EXCEPT !.amneziaWG[field] =
        IF value = "" THEN Undefined ELSE ParseIntDecimal(value)]

\* handleInputChange: the number fields MTU, listen port and keepalive
handleInputChange(formData, field, value) ==
    [formData EXCEPT ![field] = IF value = "" THEN Undefined ELSE ParseIntDecimal(value)]

toggleAmnezia(formData) ==
    [formData EXCEPT !.amneziaWG.enabled = ~formData.amneziaWG.enabled]

\* the forms a visit of the settings view can submit: the stored settings
\* with one change
FormDatas ==
    {settings, toggleAmnezia(settings)}
    \cup {handleAmzNumberChange(settings, input[1], input[2]) : input \in AmzNumberInputs}

updateSettings(stngs, given) == given

\* handleSettings: the settings view opens
handleSettings ==
    /\ view = "list"
    /\ view' = "settings"
    /\ UNCHANGED <<configs, settings, now, importVars, codecVars, isSaving, pendingSave, edits, persistVars>>

\* handleSubmit: the form is stored and the view left when validateForm finds
\* no error, and stays as it is with its errors otherwise
handleSubmit(formData) ==
    /\ view = "settings"
    /\ IF validateForm(formData) = {}
       THEN /\ settings' = updateSettings(settings, formData)
            /\ view' = "list"
       ELSE UNCHANGED <<settings, view>>
    /\ UNCHANGED <<configs, now, importVars, codecVars, isSaving, pendingSave, edits>>
    /\ SaveEffects

InitSettings ==
    /\ settings = DefaultSettings
    /\ now = 1
    /\ configs = <<[key |-> StoredConfig.id, value |-> StoredConfig]>>
    /\ phase = "idle"
    /\ lines = <<>>
    /\ parser = ParserStart
    /\ alerts = 0
    /\ editedConfig = StoredConfig
    /\ output = ""
    /\ backupFile = NoBackup
    /\ InitEditorClosed
    /\ AfterMount

NextSettings ==
    \/ handleSettings
    \/ \E formData \in FormDatas : handleSubmit(formData)

SpecSettings == InitSettings /\ [][NextSettings]_vars

(***************************************************************************)
(* The editor: ConfigDetail and handleSaveConfig                           *)
(***************************************************************************)
\* how many changes the user makes in the editor at most
MaxEdits == 1

\* the keys of overrideErrors
overrideErrors(config, stngs) ==
    LET override == config.amneziaWG
    IN  IF ~stngs.amneziaWG.enabled THEN {}
        ELSE {k \in OverrideTexts : Truthy(override[k]) /\ ~AllIn(override[k].s, HexSet)}
             \cup (IF override.Jc.t = "number"
                      /\ (override.Jc.n < 1 \/ override.Jc.n > 128)
                   THEN {"Jc"} ELSE {})
             \cup (IF override.Jmin.t = "number" /\ override.Jmin.n >= 1280
                   THEN {"Jmin"} ELSE {})
             \cup (IF override.Jmax.t = "number" /\ override.Jmax.n > 1280
                   THEN {"Jmax"} ELSE {})
             \cup (IF override.Jmin.t # "undefined" /\ override.Jmax.t # "undefined"
                      /\ ~(override.Jmin.t = "number" /\ override.Jmax.t = "number"
                            /\ override.Jmax.n > override.Jmin.n)
                   THEN {"Jmax"} ELSE {})

\* a form check that looks at the interface only
isFormValidInterfaceOnly(config, stngs) ==
    /\ validatePrivateKey(config.interface.privateKey) = ""
    /\ validateHost(config.interface.host) = ""
    /\ validatePort(config.interface.listenPort) = ""
    /\ \A i \in 1..Len(config.interface.address) :
           validateCIDR(config.interface.address[i]) = ""
    /\ \A i \in 1..Len(config.interface.dns) :
           validateIPAddress(config.interface.dns[i]) = ""
    /\ overrideErrors(config, stngs) = {}

isFormValid(config, stngs) ==
    LET privateKeyError == validatePrivateKey(config.interface.privateKey)
        hostError == validateHost(config.interface.host)
        portError == validatePort(config.interface.listenPort)
        addressErrors == [i \in 1..Len(config.interface.address) |->
                             validateCIDR(config.interface.address[i])]
        dnsErrors == [i \in 1..Len(config.interface.dns) |->
                         validateIPAddress(config.interface.dns[i])]
    IN  /\ privateKeyError = ""
        /\ hostError = ""
        /\ portError = ""
        /\ \A i \in 1..Len(addressErrors) : addressErrors[i] = ""
        /\ \A i \in 1..Len(dnsErrors) : dnsErrors[i] = ""
        /\ overrideErrors(config, stngs) = {}
        /\ \A k \in 1..Len(config.peers) :
              LET peer == config.peers[k]
              IN  /\ validatePublicKey(peer.publicKey) = ""
                  /\ \A i \in 1..Len(peer.allowedIPs) : validateCIDR(peer.allowedIPs[i]) = ""
                  /\ validateEndpoint(peer.endpoint) = ""
                  /\ validatePresharedKey(peer.presharedKey) = ""

\* createEmptyConfig: a new config with a generated key
createEmptyConfig(id, privateKey, stngs, time) ==
    [id |-> id, name |-> "New Configuration",
     interface |-> [EmptyInterface EXCEPT
                      !.privateKey = privateKey,
                      !.listenPort = IF Truthy(stngs.listenPort) THEN stngs.listenPort
                                     ELSE DefaultSettings.listenPort],
     peers |-> <<>>, enableAllPeers |-> FALSE, amneziaWG |-> NoOverride,
     createdAt |-> time, updatedAt |-> time]

\* the config the collection of the editor holds
EditableStored ==
    [Config("id-1",
            [BaseInterface EXCEPT !.dns = <<"1.1.1.1">>, !.listenPort = Num(51821)],
            <<[BasePeer EXCEPT !.endpoint = Str(""), !.presharedKey = Str("")]>>,
            FALSE)
     EXCEPT !.name = "office"]

\* what the user types or picks
PrivateKeyInputs == {PrivateKeyOf(4), "bad"}

HostInputs == {"vpn.example.com", ":x"}

PortInputs == {"", "0", "51820"}

CidrInputs == {"10.0.10.7/24", "10.0.10.7/33"}

DnsInputs == {"fd10::1", "1.1.1.256"}

PublicKeyInputs == {PublicKeyOf(4), PublicKeyOf(1), "bad"}

EndpointInputs == {"peer.example.com:51820", "peer.example.com"}

PresharedKeyInputs == {PrivateKeyOf(3), "bad"}

OverrideNumberInputs ==
    {<<"Jc", "0">>, <<"Jc", "4">>, <<"Jmin", "50">>, <<"Jmin", "1280">>,
     <<"Jmax", "40">>, <<"Jmax", "1281">>}

OverrideTextInputs == {<<"I1", "ab12">>, <<"I5", "xyz">>}

\* EditableArrayField: the lists its inputs and buttons hand to onChange
ArrayChanges(values, inputs) ==
    {[values EXCEPT ![i] = text] : i \in 1..Len(values), text \in inputs}
    \cup {SubSeq(values, 1, i - 1) \o SubSeq(values, i + 1, Len(values)) :
            i \in 1..Len(values)}
    \cup {Append(values, "")}

\* the collection of the editor: the editable config and the other configs
EditorCollection ==
    Entries(<<EditableStored,
              CHOOSE c \in Others : c.id = "id-4",
              CHOOSE c \in Others : c.id = "id-3",
              CHOOSE c \in Others : c.id = "id-5">>)

InitEdit ==
    /\ settings \in {[DefaultSettings EXCEPT !.amneziaWG.enabled = enabled,
                                             !.persistentKeepalive = keepalive] :
                        enabled \in BOOLEAN, keepalive \in {Undefined, Num(25)}}
    /\ now = 1
    /\ configs = EditorCollection
    /\ phase = "idle"
    /\ lines = <<>>
    /\ parser = ParserStart
    /\ alerts = 0
    /\ editedConfig \in {EditableStored,
                           createEmptyConfig("id-2", PrivateKeyOf(3), settings, now)}
    /\ output = ""
    /\ backupFile = NoBackup
    /\ view = "detail"
    /\ isSaving = FALSE
    /\ pendingSave = <<>>
    /\ edits = 0
    /\ AfterMount

\* setEditedConfig after a change in the editor
setEditedConfig(next) ==
    /\ view = "detail"
    /\ edits < MaxEdits
    /\ editedConfig' = next
    /\ edits' = edits + 1
    /\ UNCHANGED <<configs, settings, now, importVars, output, backupFile, view, isSaving, pendingSave, persistVars>>

EditPrivateKey(value) ==
    setEditedConfig([editedConfig EXCEPT !.interface.privateKey = value])

\* ConfigDetail's publicKey, which an effect sets whenever the private key of
\* the edited config changes
PublicKeyShown(privateKey) ==
    IF privateKey # "" THEN getPublicKey(privateKey) ELSE ""

publicKey == PublicKeyShown(editedConfig.interface.privateKey)

\* the button next to the private key: generatePrivateKey() draws 32 random
\* bytes
RegeneratePrivateKey ==
    \E i \in 1..Len(KeyPairs) :
        setEditedConfig([editedConfig EXCEPT !.interface.privateKey = PrivateKeyOf(i)])

EditHost(value) ==
    setEditedConfig([editedConfig EXCEPT
                       !.interface.host = IF value # "" THEN Str(value) ELSE Undefined])

EditListenPort(value) ==
    setEditedConfig([editedConfig EXCEPT
                       !.interface.listenPort = IF value # "" THEN ParseInt(value)
                                                ELSE Undefined])

updateInterfaceAddresses(addresses) ==
    setEditedConfig([editedConfig EXCEPT !.interface.address = addresses])

updateInterfaceDNS(dns) ==
    setEditedConfig([editedConfig EXCEPT !.interface.dns = dns])

EditOverrideNumber(k, value) ==
    /\ settings.amneziaWG.enabled
    /\ setEditedConfig([editedConfig EXCEPT
                          !.amneziaWG[k] = IF value = "" THEN Undefined ELSE ParseInt(value)])

EditOverrideText(k, value) ==
    /\ settings.amneziaWG.enabled
    /\ setEditedConfig([editedConfig EXCEPT
                          !.amneziaWG[k] = IF value # "" THEN Str(value) ELSE Undefined])

addPeer ==
    setEditedConfig([editedConfig EXCEPT
                       !.peers = Append(@, [publicKey |-> "", allowedIPs |-> <<>>,
                                            endpoint |-> Str(""), presharedKey |-> Str(""),
                                            persistentKeepalive |-> settings.persistentKeepalive,
                                            configId |-> Undefined])])

\* the pick of a config in "Add Peer From Other", which lists the configs of
\* another id
addPeerFromConfig(configId) ==
    /\ configId # editedConfig.id
    /\ \E i \in 1..Len(configs) :
          /\ configs[i].key = configId
          /\ setEditedConfig([editedConfig EXCEPT
                                !.peers = Append(@, peerFromConfig(configs[i].value,
                                                                   settings))])

removePeer(index) ==
    setEditedConfig([editedConfig EXCEPT
                       !.peers = SubSeq(@, 1, index - 1) \o SubSeq(@, index + 1, Len(@))])

EditPeerPublicKey(i, value) ==
    setEditedConfig([editedConfig EXCEPT !.peers[i].publicKey = value])

updatePeerAllowedIPs(index, allowedIPs) ==
    setEditedConfig([editedConfig EXCEPT !.peers[index].allowedIPs = allowedIPs])

EditPeerEndpoint(i, value) ==
    setEditedConfig([editedConfig EXCEPT !.peers[i].endpoint = Str(value)])

EditPeerPresharedKey(i, value) ==
    setEditedConfig([editedConfig EXCEPT !.peers[i].presharedKey = Str(value)])

\* Number(text) of a part of an address: whitespace around it is dropped, no
\* text is 0, decimal digits are their value, and any other of the texts the
\* model holds is NaN
ToNumber(text) ==
    LET t == Trim(text)
    IN  IF t = "" THEN Num(0)
        ELSE IF AllIn(t, DigitSet) THEN Num(DigitsValue(t, 10, 0))
        ELSE NaN

\* parseInt(str, 16)
ParseIntHex(str) ==
    LET s0 == TrimStart(str)
        neg == StartsWith(s0, "-")
        s1 == IF neg \/ StartsWith(s0, "+") THEN SliceFrom(s0, 2) ELSE s0
        s2 == IF StartsWith(s1, "0x") \/ StartsWith(s1, "0X") THEN SliceFrom(s1, 3) ELSE s1
    IN  IF s2 = "" \/ DigitValue(CharAt(s2, 1), 16) < 0 THEN NaN
        ELSE Num((IF neg THEN -1 ELSE 1) * DigitsValue(s2, 16, 0))

\* Number.prototype.toString(16) of a natural number
RECURSIVE ToHex(_)
ToHex(n) ==
    IF n < 16 THEN CharAt(HexDigits, n + 1)
    ELSE ToHex(n \div 16) \o CharAt(HexDigits, (n % 16) + 1)

\* array.slice(-1)[0] of the parts split gives, which are never none
LastOf(parts) == parts[Len(parts)]

\* the addresses of all configs, then those of the edited config
AllAddresses ==
    UNION {{configs[i].value.interface.address[j] :
               j \in 1..Len(configs[i].value.interface.address)} : i \in 1..Len(configs)}
    \cup {editedConfig.interface.address[j] : j \in 1..Len(editedConfig.interface.address)}

\* used: the last part of every IPv4 address that ends with the mask
UsedIPv4(addresses, mask) ==
    {ToNumber(LastOf(Split(Split(a, "/")[1], "."))) :
        a \in {a \in addresses : Includes(a, ".") /\ EndsWith(a, "/" \o mask)}}

\* used: the last group of every IPv6 address that ends with the mask
UsedIPv6(addresses, mask) ==
    {ParseIntHex(LastOf(Split(Split(a, "/")[1], ":"))) :
        a \in {a \in addresses : Includes(a, ":") /\ EndsWith(a, "/" \o mask)}}

\* the number next stops at: 255 for IPv4, 65535 for IPv6
IPv4Limit == 255

IPv6Limit == 65535

\* a loop that starts at 0
StopFromZero(taken, limit) ==
    MinOf(((0..MinOf({limit, Cardinality(taken)})) \ taken) \cup {limit})

\* let next = 1; while (taken.includes(next) && next < limit) next++: the
\* loop stops at the lowest number from 1 that is not taken, or at the limit.
\* The numbers below the one it stops at are all taken, so it stops at
\* Cardinality(taken) + 1 at the latest.
Stop(taken, limit) ==
    MinOf(((1..MinOf({limit, Cardinality(taken) + 1})) \ taken) \cup {limit})

\* the loop over used, which holds numbers and NaN
NextFree(used, limit) ==
    Stop({u.n : u \in {u \in used : u.t = "number"}}, limit)

\* settings.IPv4CIDR || '10.0.0.0/24'
PoolIPv4 == IF Truthy(settings.IPv4CIDR) THEN settings.IPv4CIDR.s ELSE "10.0.0.0/24"

\* settings.IPv6CIDR || 'fd00::/64'
PoolIPv6 == IF Truthy(settings.IPv6CIDR) THEN settings.IPv6CIDR.s ELSE "fd00::/64"

\* the button "Add Network IPv4 Address"
AddNetworkIPv4Address ==
    LET subnet == PoolIPv4
        base == Split(subnet, "/")[1]
        mask == Split(subnet, "/")[2]
        baseParts == [i \in 1..Len(Split(base, ".")) |-> ToNumber(Split(base, ".")[i])]
    IN  \E next \in {NextFree(UsedIPv4(AllAddresses, mask), IPv4Limit)} :
            LET addr == Interp(baseParts[1]) \o "." \o Interp(baseParts[2]) \o "."
                        \o Interp(baseParts[3]) \o "." \o ToString(next) \o "/" \o mask
            IN  IF next < IPv4Limit
                THEN updateInterfaceAddresses(Append(editedConfig.interface.address, addr))
                ELSE view = "detail" /\ UNCHANGED vars

\* the button "Add Network IPv6 Address"
AddNetworkIPv6Address ==
    LET subnet == PoolIPv6
        base == Split(subnet, "/")[1]
        mask == Split(subnet, "/")[2]
    IN  \E next \in {NextFree(UsedIPv6(AllAddresses, mask), IPv6Limit)} :
            LET addr == base \o (IF EndsWith(base, ":") THEN "" ELSE ":") \o ToHex(next)
                        \o "/" \o mask
            IN  IF next < IPv6Limit
                THEN updateInterfaceAddresses(Append(editedConfig.interface.address, addr))
                ELSE view = "detail" /\ UNCHANGED vars

\* the Persistent Keepalive field of a peer, an input of type number
EditPeerKeepalive(i, value) ==
    setEditedConfig([editedConfig EXCEPT
                       !.peers[i].persistentKeepalive =
                           IF value # "" THEN ParseInt(value) ELSE Undefined])

\* a save that hands the edited config on with the updatedAt it had
handleSaveKeepsUpdatedAt ==
    /\ view = "detail"
    /\ ~isSaving
    /\ isFormValid(editedConfig, settings)
    /\ isSaving' = TRUE
    /\ pendingSave' = Append(pendingSave, [configToSave |-> editedConfig,
                                            ids |-> Keys(configs)])
    /\ UNCHANGED <<configs, settings, now, importVars, codecVars, view, edits, persistVars>>

\* handleSave: the click on Save, which the button allows while it is not
\* saving; configToSave is taken now and handed on by a timer 500 ms later
handleSave ==
    /\ view = "detail"
    /\ ~isSaving
    /\ isFormValid(editedConfig, settings)
    /\ isSaving' = TRUE
    /\ pendingSave' = Append(pendingSave,
                              [configToSave |-> [editedConfig EXCEPT !.updatedAt = now],
                               ids |-> Keys(configs)])
    /\ UNCHANGED <<configs, settings, now, importVars, codecVars, view, edits, persistVars>>

updateConfig(cfgs, config) == PutConfig(cfgs, config)

\* the timer of handleSave: onSave(configToSave), which is the
\* handleSaveConfig of the render of the click and reads the configs of that
\* render for isNewConfig, then setIsSaving(false).  addConfig and
\* updateConfig work on the collection as it is now.  After an update the
\* detail view shows the saved config and the editor takes it over.
SaveTimerFires ==
    /\ pendingSave # <<>>
    /\ LET config == Head(pendingSave).configToSave
           isNewConfig == config.id = "" \/ config.id \notin Head(pendingSave).ids
       IN  IF isNewConfig
           THEN /\ configs' = addConfig(configs, config)
                /\ view' = "list"
                /\ UNCHANGED editedConfig
           ELSE /\ configs' = updateConfig(configs, config)
                /\ view' = "detail"
                /\ editedConfig' = config
    /\ pendingSave' = Tail(pendingSave)
    /\ isSaving' = FALSE
    /\ UNCHANGED <<settings, now, importVars, output, backupFile, edits>>
    /\ SaveEffects

NextEdit ==
    \/ \E value \in PrivateKeyInputs : EditPrivateKey(value)
    \/ RegeneratePrivateKey
    \/ \E value \in HostInputs : EditHost(value)
    \/ \E value \in PortInputs : EditListenPort(value)
    \/ \E addresses \in ArrayChanges(editedConfig.interface.address, CidrInputs) :
          updateInterfaceAddresses(addresses)
    \/ \E dns \in ArrayChanges(editedConfig.interface.dns, DnsInputs) :
          updateInterfaceDNS(dns)
    \/ \E input \in OverrideNumberInputs : EditOverrideNumber(input[1], input[2])
    \/ \E input \in OverrideTextInputs : EditOverrideText(input[1], input[2])
    \/ addPeer
    \/ \E configId \in Keys(configs) : addPeerFromConfig(configId)
    \/ \E i \in 1..Len(editedConfig.peers) :
          \/ removePeer(i)
          \/ \E value \in PublicKeyInputs : EditPeerPublicKey(i, value)
          \/ \E allowedIPs \in ArrayChanges(editedConfig.peers[i].allowedIPs, CidrInputs) :
                updatePeerAllowedIPs(i, allowedIPs)
          \/ \E value \in EndpointInputs : EditPeerEndpoint(i, value)
          \/ \E value \in PresharedKeyInputs : EditPeerPresharedKey(i, value)
    \/ handleSave
    \/ SaveTimerFires

SpecEdit == InitEdit /\ [][NextEdit]_vars

(***************************************************************************)
(* The private key field and the public key shown for it                   *)
(***************************************************************************)
\* 42 characters of the alphabet, which decode to 31 bytes when padded
Key42 == "CCCCCCCCCCCCCCCCCCCCCCCCCCCCCCCCCCCCCCCCCC"

\* what can be typed or pasted into the private key field
PrivateKeyTexts ==
    {PrivateKeyOf(i) : i \in 1..Len(KeyPairs)}
    \cup {PrivateKeyOf(3) \o "\n", " " \o PrivateKeyOf(3), "\t" \o PrivateKeyOf(4) \o "\r\n",
          Key42 \o " A=", Key42 \o "A", Key42 \o "A ",
          "", " ", "A", "AA", "AAA", "AAAA", "AAAAA", "AA==", "AAA=", "AA=", "=", "====",
          Key42, Key42 \o "==", Key42 \o "=", Key42 \o "AA", Key42 \o "AA==",
          Key42 \o "A==", Key42 \o "A=A", "=" \o Key42 \o "A", Key42 \o "A=\n=",
          Key42 \o "-=", Key42 \o "_=", Key42 \o "!=", Key42 \o ".=", Key42 \o "A=!",
          Key42 \o "AAAAAAAAAAAAAAAAAAAAAA", "undefined", "bad", "private key"}

NextKey ==
    \/ \E value \in PrivateKeyTexts : EditPrivateKey(value)
    \/ RegeneratePrivateKey

SpecKey == InitEdit /\ [][NextKey]_vars

(***************************************************************************)
(* The address buttons of the editor                                       *)
(***************************************************************************)
\* the pools of the settings; without a pool the buttons take 10.0.0.0/24 and
\* fd00::/64
PoolSettings ==
    {[DefaultSettings EXCEPT !.IPv4CIDR = v4, !.IPv6CIDR = v6] :
        v4 \in {Undefined, Str("10.0.10.0/24"), Str("172.16.0.0/16")},
        v6 \in {Undefined, Str("fd10::/64")}}

\* the addresses a config may hold
AddressLists ==
    {<<>>, <<"10.0.10.1/24", "fd10::1/64">>, <<"10.0.10.2/24", "fd10::2/64">>,
     <<"10.0.10.1/24", "10.0.10.3/24", "fd10::1/64", "fd10::3/64">>,
     <<"192.168.1.1/24", "fd00::a/64">>, <<"10.0.10.1/16", "fd10::1/48">>,
     <<"10.0.10.1", "fd10::1">>, <<"10.0.10.0/24", "fd10::/64">>}

\* a config that holds every host number of the IPv4 range
FullIPv4 == [i \in 1..(IPv4Limit - 1) |-> "10.0.10." \o ToString(i) \o "/24"]

\* a config that holds every host number of the IPv6 range
FullIPv6 == [i \in 1..(IPv6Limit - 1) |-> "fd10::" \o ToHex(i) \o "/64"]

WithAddresses(id, addresses) ==
    Config(id, [BaseInterface EXCEPT !.address = addresses], <<>>, FALSE)

InitAddress ==
    /\ InitImportIdle
    /\ \/ /\ settings \in PoolSettings
          /\ \E mine, other \in AddressLists :
                /\ editedConfig = WithAddresses("id-1", mine)
                /\ configs = Entries(<<editedConfig, WithAddresses("id-3", other)>>)
       \/ /\ settings = DefaultSettings
          /\ editedConfig = WithAddresses("id-1", <<>>)
          /\ configs \in {Entries(<<editedConfig, WithAddresses("id-3", FullIPv4)>>),
                          Entries(<<editedConfig, WithAddresses("id-3", FullIPv4),
                                    WithAddresses("id-4", FullIPv6)>>)}
    /\ AfterMount

RemoveAddress(i) ==
    updateInterfaceAddresses(SubSeq(editedConfig.interface.address, 1, i - 1)
                             \o SubSeq(editedConfig.interface.address, i + 1,
                                       Len(editedConfig.interface.address)))

NextAddress ==
    \/ AddNetworkIPv4Address
    \/ AddNetworkIPv6Address
    \/ \E i \in 1..Len(editedConfig.interface.address) : RemoveAddress(i)

SpecAddress == InitAddress /\ [][NextAddress]_vars

(***************************************************************************)
(* The endpoint and keepalive fields of a peer                             *)
(***************************************************************************)
\* what can be typed into the Endpoint field of a peer
EndpointTexts ==
    {"", "peer.example.com:51820", "peer.example.com", "peer.example.com:",
     "peer.example.com:0", "peer.example.com:00000", "peer.example.com:1",
     "peer.example.com:65535", "peer.example.com:65536", "peer.example.com:99999",
     "peer.example.com:100000", "peer.example.com:5x", "peer.example.com:-1",
     ":51820", "1.2.3.4:51820", "[fd10::1]:51820", "[fd10::1]:0", "[fd10::1]:70000",
     "[fd10::1]", "[]:51820", "[fd10::g]:51820", "fd10::1:51820", "a:b:51820"}

\* what an input of type number gives for the Persistent Keepalive of a peer
KeepaliveTexts == {"", "0", "25", "65535", "65536", "-1"}

NextPeerFields ==
    \/ \E i \in 1..Len(editedConfig.peers) :
          \/ \E value \in EndpointTexts : EditPeerEndpoint(i, value)
          \/ \E value \in KeepaliveTexts : EditPeerKeepalive(i, value)
    \/ handleSave
    \/ SaveTimerFires

SpecPeerFields == InitEdit /\ [][NextPeerFields]_vars

(***************************************************************************)
(* The editor under a clock                                                *)
(***************************************************************************)
\* the last time the clock shows
MaxTime == 3

\* time passes between the operations; new Date() reads the clock
Tick ==
    /\ now < MaxTime
    /\ now' = now + 1
    /\ UNCHANGED <<configs, settings, importVars, codecVars, editorVars, persistVars>>

NextLifecycle ==
    \/ NextEdit
    \/ Tick

SpecLifecycle == InitEdit /\ [][NextLifecycle]_vars

\* the detail view without a config: the editor starts on createEmptyConfig()
handleAddConfig(id) ==
    /\ ~isSaving
    /\ \A i \in 1..Len(configs) : configs[i].value.id # id
    /\ view' = "detail"
    /\ editedConfig' = createEmptyConfig(id, PrivateKeyOf(4), settings, now)
    /\ UNCHANGED <<configs, settings, now, importVars, output, backupFile, isSaving, pendingSave, edits, persistVars>>

NextCollection ==
    \/ \E i \in 1..Len(configs) : handleDeleteConfig(configs[i].value.id)
    \/ \E file \in BackupFiles : handleBackupImported(file)
    \/ handleReset
    \/ \E i \in 1..(1 + MaxOthers) : handleSelectConfig(i)
    \/ \E id \in UUIDs : handleAddConfig(id)
    \/ handleSave
    \/ SaveTimerFires

SpecCollection == InitList /\ [][NextCollection]_vars

(***************************************************************************)
(* Properties of the editor                                                *)
(***************************************************************************)
\* every field validator of the interface, of every peer and, with
\* AmneziaWG enabled, of the overrides passes
AllValidatorsPass(config) ==
    /\ validatePrivateKey(config.interface.privateKey) = ""
    /\ validateHost(config.interface.host) = ""
    /\ validatePort(config.interface.listenPort) = ""
    /\ \A i \in 1..Len(config.interface.address) :
           validateCIDR(config.interface.address[i]) = ""
    /\ \A i \in 1..Len(config.interface.dns) :
           validateIPAddress(config.interface.dns[i]) = ""
    /\ \A k \in 1..Len(config.peers) :
           /\ validatePublicKey(config.peers[k].publicKey) = ""
           /\ \A i \in 1..Len(config.peers[k].allowedIPs) :
                  validateCIDR(config.peers[k].allowedIPs[i]) = ""
           /\ validateEndpoint(config.peers[k].endpoint) = ""
           /\ validatePresharedKey(config.peers[k].presharedKey) = ""
    /\ settings.amneziaWG.enabled => overrideErrors(config, settings) = {}

\* C3: a config that handleSave has taken for its timer, and a config that
\* a save has put into the collection, passes every field validator
C3_OnlyValidConfigsSaved ==
    /\ \A k \in 1..Len(pendingSave) : AllValidatorsPass(pendingSave[k].configToSave)
    /\ \A i \in 1..Len(configs) :
           configs[i].value.updatedAt = now => AllValidatorsPass(configs[i].value)

\* C3 witness: handleSave has taken a config for its timer, and the editor,
\* changed since, holds a peer with a malformed CIDR in allowedIPs
C3_Witness ==
    /\ isSaving
    /\ Len(pendingSave) = 1
    /\ \E k \in 1..Len(editedConfig.peers) :
          \E i \in 1..Len(editedConfig.peers[k].allowedIPs) :
             editedConfig.peers[k].allowedIPs[i] = "10.0.10.7/33"
    /\ ~AllValidatorsPass(editedConfig)

(***************************************************************************)
(* Properties of the text import                                           *)
(***************************************************************************)
\* the trimmed line a ReadLine step reads
LineRead == Trim(lines'[Len(lines')])

\* a step that reads one more line while the parser is in the given section
ReadsIn(section) ==
    /\ phase = "parsing"
    /\ Len(lines') = Len(lines) + 1
    /\ parser.currentSection = section

\* the indexes of the [Peer] headers of a file, in order
RECURSIVE HeadersFrom(_, _)
HeadersFrom(trimmed, i) ==
    IF i > Len(trimmed) THEN <<>>
    ELSE (IF trimmed[i] = "[Peer]" THEN <<i>> ELSE <<>>) \o HeadersFrom(trimmed, i + 1)

\* the peer that the lines from the k-th [Peer] header up to the next one
\* describe, read on their own
SectionPeer(trimmed, headers, k) ==
    LET last == IF k < Len(headers) THEN headers[k + 1] - 1 ELSE Len(trimmed)
        alone == ParseLines([ParserStart EXCEPT !.currentSection = "peer",
                                                !.currentPeer = <<EmptyPeer>>],
                            SubSeq(trimmed, headers[k] + 1, last))
    IN  alone.currentPeer[1]

\* C4: a file that parses gives exactly one peer per [Peer] header, in header
\* order, and each peer holds the keys of the lines between its own header and
\* the next one only
C4_OnePeerPerHeader ==
    phase = "imported" =>
        LET trimmed == TrimAll(lines)
            headers == HeadersFrom(trimmed, 1)
        IN  /\ Len(parser.peers) = Len(headers)
            /\ parser.currentPeer = <<>>
            /\ \A k \in 1..Len(headers) :
                   parser.peers[k] = SectionPeer(trimmed, headers, k)
            /\ Values(configs)[Len(configs)].peers = parser.peers

\* C4 witness: an imported file with two [Peer] sections of different keys
C4_Witness ==
    /\ phase = "imported"
    /\ Len(parser.peers) = 2
    /\ parser.peers[1].publicKey # ""
    /\ parser.peers[2].publicKey # ""
    /\ parser.peers[1].publicKey # parser.peers[2].publicKey

\* the value of a PersistentKeepalive line, <<>> for any other line
KeepaliveText(line) ==
    LET i == IndexOf(line, "=")
    IN  IF i # 0 /\ ToLowerCase(Trim(SubSeq(line, 1, i - 1))) = "persistentkeepalive"
        THEN <<Trim(SliceFrom(line, i + 1))>>
        ELSE <<>>

\* a non-negative number in decimal digits
IsDecimal(s) == s # "" /\ \A i \in 1..Len(s) : DigitValue(CharAt(s, i), 10) >= 0

\* C5: a PersistentKeepalive line inside [Peer] raises when its value is
\* negative or not a number, and stores the value when it is a non-negative
\* number
C5_KeepaliveStoredOrRaised ==
    [][(ReadsIn("peer") /\ KeepaliveText(LineRead) # <<>>) =>
          LET v == KeepaliveText(LineRead)[1]
          IN  IF IsDecimal(v)
              THEN /\ parser'.error = ""
                   /\ parser'.currentPeer[1].persistentKeepalive = Num(DigitsValue(v, 10, 0))
              ELSE /\ parser'.error # ""
                   /\ phase' = "failed"]_vars

IsHeader(line) == line \in {"[Interface]", "[Peer]"}

\* C6 as claimed: every line before the first header that is neither blank nor
\* a header raises, with or without "="
C6_LineOutsideSectionRaises ==
    [][(ReadsIn("null") /\ LineRead # "" /\ ~IsHeader(LineRead)) =>
          parser'.error # ""]_vars

\* C6 as the parser has it: a line before the first header that is neither
\* blank nor a header raises exactly when it contains "="; without "=" it is
\* passed over and the parser state stays as it was
C6_LineOutsideSectionRaisesIffEquals ==
    [][(ReadsIn("null") /\ LineRead # "" /\ ~IsHeader(LineRead)) =>
          IF Includes(LineRead, "=")
          THEN parser'.error # "" /\ phase' = "failed"
          ELSE parser' = parser /\ phase' = "parsing"]_vars

\* C6 witness: before any header, a line without "=" was passed over and a
\* line with "=" then raised
C6_Witness ==
    /\ phase = "failed"
    /\ parser.currentSection = "null"
    /\ Len(lines) >= 2
    /\ Trim(lines[1]) # "" /\ ~Includes(lines[1], "=")
    /\ Includes(lines[Len(lines)], "=")

\* a comment line other than the "# Endpoint = ..." one of [Interface]
IsPlainComment(section, line) ==
    /\ StartsWith(line, "#")
    /\ ~(section = "interface" /\ Includes(line, "=")
          /\ ToLowerCase(Trim(SubSeq(line, 2, IndexOf(line, "=") - 1))) = "endpoint")

\* C7: a comment line, in any section or before the first one, with or without
\* "=", raises nothing and leaves the parser state as it was
C7_CommentsSkipped ==
    [][(phase = "parsing" /\ Len(lines') = Len(lines) + 1
        /\ IsPlainComment(parser.currentSection, LineRead)) =>
          parser' = parser]_vars

\* C8: after a parse error no config has reached the collection: it holds
\* what it held before the import, and the import has failed
C8_ParseErrorAtomic ==
    parser.error # "" =>
        /\ phase = "failed"
        /\ configs = <<[key |-> StoredConfig.id, value |-> StoredConfig]>>

\* C8 witness: a failed import whose earlier lines were well formed and had
\* already given a private key and a peer
C8_Witness ==
    /\ phase = "failed"
    /\ parser.error # ""
    /\ parser.interfaceConfig.privateKey # ""
    /\ parser.currentPeer # <<>>
    /\ Len(configs) = 1

(***************************************************************************)
(* Properties of the generated text                                        *)
(***************************************************************************)
\* the text has been generated and not yet imported
Generated == output # "" /\ phase = "idle"

\* the lines of the k-th [Peer] block of a text given as lines
BlockLines(text, headers, k) ==
    SubSeq(text, headers[k] + 1,
           IF k < Len(headers) THEN headers[k + 1] - 1 ELSE Len(text))

\* the values of the lines "key = value" of a block, in order
RECURSIVE ValuesOf(_, _)
ValuesOf(block, key) ==
    IF block = <<>> THEN <<>>
    ELSE (IF StartsWith(Head(block), key \o " = ")
          THEN <<SliceFrom(Head(block), Len(key) + 4)>> ELSE <<>>)
         \o ValuesOf(Tail(block), key)

\* the first config of the collection, and the config an import has added
Original == configs[1].value

Reimported == configs[Len(configs)].value

\* C1: a config without enableAllPeers and without advisory endpoint, once
\* generated and the text imported, comes back with the same interface fields
\* and, peer by peer, the same publicKey, allowedIPs, endpoint and
\* persistentKeepalive
C1_RoundTrip ==
    (phase # "idle" /\ ~Original.enableAllPeers
     /\ Original.interface.endpoint = Undefined
     /\ output = generateWireGuardConfig(settings, Original,
                                          [defined |-> FALSE, values |-> <<>>])) =>
        /\ phase = "imported"
        /\ Len(configs) > 1
        /\ LET c == Original
               r == Reimported
           IN  /\ r.interface.privateKey = c.interface.privateKey
               /\ r.interface.address = c.interface.address
               /\ r.interface.listenPort = c.interface.listenPort
               /\ r.interface.dns = c.interface.dns
               /\ r.interface.postUp = c.interface.postUp
               /\ r.interface.postDown = c.interface.postDown
               /\ Len(r.peers) = Len(c.peers)
               /\ \A k \in 1..Len(c.peers) :
                      /\ r.peers[k].publicKey = c.peers[k].publicKey
                      /\ r.peers[k].allowedIPs = c.peers[k].allowedIPs
                      /\ r.peers[k].endpoint = c.peers[k].endpoint
                      /\ r.peers[k].persistentKeepalive = c.peers[k].persistentKeepalive

\* the configs of the collection a peer may be synthesized from: another id,
\* another private key, and a public key no explicit peer carries
Eligible ==
    {i \in 1..Len(configs) :
        /\ configs[i].value.id # editedConfig.id
        /\ configs[i].value.interface.privateKey # editedConfig.interface.privateKey
        /\ \A k \in 1..Len(editedConfig.peers) :
               editedConfig.peers[k].publicKey
                   # getPublicKey(configs[i].value.interface.privateKey)}

\* C2: with enableAllPeers the blocks after those of the explicit peers are
\* as many as the eligible configs and carry their public keys: none carries
\* the key of an explicit peer, none comes from the config itself
C2_NoDuplicateNoSelf ==
    (Generated /\ editedConfig.enableAllPeers) =>
        LET text == Split(output, "\n")
            headers == HeadersFrom(text, 1)
            n == Len(editedConfig.peers)
            explicit == {editedConfig.peers[k].publicKey : k \in 1..n}
            key(k) == ValuesOf(BlockLines(text, headers, k), "PublicKey")
        IN  /\ Len(headers) = n + Cardinality(Eligible)
            /\ \A k \in (n + 1)..Len(headers) :
                   /\ Len(key(k)) = 1
                   /\ key(k)[1] \notin explicit
                   /\ \E i \in Eligible :
                          key(k)[1] = getPublicKey(configs[i].value.interface.privateKey)

\* C2 witness: a text generated with enableAllPeers from a collection that
\* holds the config itself, a config with the same private key and a config
\* whose public key an explicit peer carries
C2_Witness ==
    /\ Generated
    /\ editedConfig.enableAllPeers
    /\ \E i, j, k \in 1..Len(configs) :
          /\ configs[i].value.id = editedConfig.id
          /\ configs[j].value.id # editedConfig.id
          /\ configs[j].value.interface.privateKey = editedConfig.interface.privateKey
          /\ configs[k].value.id # editedConfig.id
          /\ \E m \in 1..Len(editedConfig.peers) :
                 editedConfig.peers[m].publicKey
                     = getPublicKey(configs[k].value.interface.privateKey)

\* the first defined value of a chain, Undefined when there is none
RECURSIVE FirstDefined(_)
FirstDefined(chain) ==
    IF chain = <<>> THEN Undefined
    ELSE IF Head(chain).t # "undefined" THEN Head(chain)
    ELSE FirstDefined(Tail(chain))

\* the PersistentKeepalive lines a block has for a keepalive value
KeepaliveLinesFor(v) ==
    IF v.t = "number" /\ v.n > 0 THEN <<Interp(v)>> ELSE <<>>

\* C9: the block of an explicit peer is generated with the first defined
\* value of the chain peer value, global settings.persistentKeepalive,
\* built-in default
C9_KeepaliveInherited ==
    Generated =>
        LET text == Split(output, "\n")
            headers == HeadersFrom(text, 1)
        IN  \A k \in 1..Len(editedConfig.peers) :
               ValuesOf(BlockLines(text, headers, k), "PersistentKeepalive")
                   = KeepaliveLinesFor(
                         FirstDefined(<<editedConfig.peers[k].persistentKeepalive,
                                        settings.persistentKeepalive,
                                        DefaultSettings.persistentKeepalive>>))

\* the keepalive of the k-th peer generated: that of the explicit peer, and
\* for a synthesized peer the one peerFromConfig takes from the settings
KeepaliveOfBlock(k) ==
    IF k <= Len(editedConfig.peers)
    THEN editedConfig.peers[k].persistentKeepalive
    ELSE settings.persistentKeepalive

InterfaceKeyOrder ==
    <<"PrivateKey = ", "# PublicKey = ", "# Endpoint = ", "Address = ", "ListenPort = ",
      "DNS = ", "MTU = ", "PostUp = ", "PostDown = ">>

PeerKeyOrder ==
    <<"PublicKey = ", "AllowedIPs = ", "Endpoint = ", "PersistentKeepalive = ",
      "PresharedKey = ">>

\* the place of a line's key in an order, 0 for a line of no such key
KeyRank(order, line) ==
    LET found == {i \in 1..Len(order) : StartsWith(line, order[i])}
    IN  IF found = {} THEN 0 ELSE CHOOSE i \in found : \A j \in found : i <= j

NonBlank(block) == SelectSeq(block, LAMBDA l : l # "")

\* every line of the block has a key of the order, and the keys come in
\* strictly increasing place
InKeyOrder(order, block) ==
    \A i \in 1..Len(block) :
        /\ KeyRank(order, block[i]) # 0
        /\ i > 1 => KeyRank(order, block[i - 1]) < KeyRank(order, block[i])

\* the lines of the [Interface] block of a text given as lines
InterfaceLines(text, headers) ==
    NonBlank(SubSeq(text, 2, IF headers = <<>> THEN Len(text) ELSE headers[1] - 1))

\* C11: the generated text starts with the one [Interface] block, whose lines
\* come in the order PrivateKey, # PublicKey, # Endpoint, Address, ListenPort,
\* DNS, MTU, PostUp, PostDown; every [Peer] block comes after it with its lines
\* in the order PublicKey, AllowedIPs, Endpoint, PersistentKeepalive,
\* PresharedKey; and the text is the one the config, the settings and the
\* collection determine
C11_EmissionOrder ==
    Generated =>
        LET text == Split(output, "\n")
            headers == HeadersFrom(text, 1)
        IN  /\ text[1] = "[Interface]"
            /\ \A i \in 2..Len(text) : text[i] # "[Interface]"
            /\ InKeyOrder(InterfaceKeyOrder, InterfaceLines(text, headers))
            /\ \A k \in 1..Len(headers) :
                   InKeyOrder(PeerKeyOrder, NonBlank(BlockLines(text, headers, k)))
            /\ output = generateWireGuardConfig(settings, editedConfig,
                             [defined |-> TRUE, values |-> Values(configs)])

\* C11 witness: a text whose [Interface] block has all nine lines and that
\* has a [Peer] block of all five lines
C11_Witness ==
    /\ Generated
    /\ LET text == Split(output, "\n")
           headers == HeadersFrom(text, 1)
       IN  /\ Len(InterfaceLines(text, headers)) = Len(InterfaceKeyOrder)
           /\ \E k \in 1..Len(headers) :
                  Len(NonBlank(BlockLines(text, headers, k))) = Len(PeerKeyOrder)

\* the k-th eligible config in the order of the collection
EligibleAt(k) ==
    CHOOSE i \in Eligible : Cardinality({j \in Eligible : j < i}) = k - 1

\* C12: with enableAllPeers the first blocks are those of the explicit peers
\* in their stored order, and the blocks after them are those of the eligible
\* configs in the order of the collection
C12_ExplicitThenCollectionOrder ==
    (Generated /\ editedConfig.enableAllPeers) =>
        LET text == Split(output, "\n")
            headers == HeadersFrom(text, 1)
            n == Len(editedConfig.peers)
            block(k) == BlockLines(text, headers, k)
        IN  /\ Len(headers) = n + Cardinality(Eligible)
            /\ \A k \in 1..n :
                   /\ ValuesOf(block(k), "PublicKey") = <<editedConfig.peers[k].publicKey>>
                   /\ ValuesOf(block(k), "PersistentKeepalive")
                          = KeepaliveLinesFor(editedConfig.peers[k].persistentKeepalive)
            /\ \A k \in 1..Cardinality(Eligible) :
                   LET source == configs[EligibleAt(k)].value
                   IN  /\ ValuesOf(block(n + k), "PublicKey")
                              = <<getPublicKey(source.interface.privateKey)>>
                       /\ ValuesOf(block(n + k), "Endpoint")
                              = (IF Truthy(source.interface.endpoint)
                                 THEN <<Interp(source.interface.endpoint)>> ELSE <<>>)

\* C12 witness: a text generated with enableAllPeers for a config with two
\* explicit peers of different keepalive, in a collection with two eligible
\* configs that are not in the order of their ids
C12_Witness ==
    /\ Generated
    /\ editedConfig.enableAllPeers
    /\ Len(editedConfig.peers) = 2
    /\ editedConfig.peers[1].persistentKeepalive = Num(25)
    /\ editedConfig.peers[2].persistentKeepalive = Num(0)
    /\ Cardinality(Eligible) = 2
    /\ configs[EligibleAt(1)].key = "id-4"
    /\ configs[EligibleAt(2)].key = "id-3"

(***************************************************************************)
(* Properties of the generations                                           *)
(***************************************************************************)
\* C13: a generation, for the text area, the QR code or the export, leaves
\* the edited config, its peers, the settings and every config of the
\* collection as they were
C13_GenerationIsView ==
    [][/\ configs' = configs
       /\ settings' = settings
       /\ editedConfig' = editedConfig]_vars

\* C13 witness: the text generated for the edited config has the blocks of
\* synthesized peers, and the edited config has the peers it had
C13_Witness ==
    /\ editedConfig.enableAllPeers
    /\ Cardinality(Eligible) > 0
    /\ output = generateWireGuardConfig(settings, editedConfig,
                     [defined |-> TRUE, values |-> Values(configs)])
    /\ Len(HeadersFrom(Split(output, "\n"), 1))
           = Len(editedConfig.peers) + Cardinality(Eligible)

(***************************************************************************)
(* Properties of the peers made of other configs                           *)
(***************************************************************************)
\* a step of the editor that adds a peer made of another config
AddsPeerFromConfig ==
    /\ Len(editedConfig'.peers) = Len(editedConfig.peers) + 1
    /\ editedConfig'.peers[Len(editedConfig'.peers)].configId # Undefined

\* the single-host route of an address: the address without its prefix
\* length, with /32 for IPv4 and /128 for IPv6
HostRoute(addr) ==
    LET slash == IndexOf(addr, "/")
        host == IF slash = 0 THEN addr ELSE SubSeq(addr, 1, slash - 1)
    IN  host \o (IF Includes(host, ":") THEN "/128" ELSE "/32")

\* C14: the peer made of a source config has the key derived from the
\* source's private key, the source's id as configId, the source's advisory
\* endpoint, the keepalive of the settings, and one allowedIP per address of
\* the source, in order, each the single-host route of that address
C14_PeerFromConfig ==
    [][AddsPeerFromConfig =>
          LET peer == editedConfig'.peers[Len(editedConfig'.peers)]
          IN  \E i \in 1..Len(configs) :
                 LET source == configs[i].value
                 IN  /\ peer.configId = Str(source.id)
                     /\ peer.publicKey = getPublicKey(source.interface.privateKey)
                     /\ peer.endpoint = source.interface.endpoint
                     /\ peer.persistentKeepalive = settings.persistentKeepalive
                     /\ Len(peer.allowedIPs) = Len(source.interface.address)
                     /\ \A k \in 1..Len(peer.allowedIPs) :
                            peer.allowedIPs[k] = HostRoute(source.interface.address[k])]_vars

(***************************************************************************)
(* Properties of the list of configs                                       *)
(***************************************************************************)
\* the peers of the stored configs whose configId names no stored config
Dangling ==
    {<<i, k>> \in (1..Len(configs)) \X (1..(MaxPeers + MaxEdits)) :
        /\ k <= Len(configs[i].value.peers)
        /\ Truthy(configs[i].value.peers[k].configId)
        /\ configs[i].value.peers[k].configId.s \notin Keys(configs)}

\* the text generated is that of the i-th stored config: one block per
\* stored peer, in order, with the stored key and allowedIPs
IsTextOf(text, i) ==
    LET config == configs[i].value
        headers == HeadersFrom(text, 1)
    IN  /\ ValuesOf(InterfaceLines(text, headers), "PrivateKey")
               = <<config.interface.privateKey>>
        /\ Len(headers) = Len(config.peers)
        /\ \A k \in 1..Len(headers) :
               /\ ValuesOf(BlockLines(text, headers, k), "PublicKey")
                      = <<config.peers[k].publicKey>>
               /\ ValuesOf(BlockLines(text, headers, k), "AllowedIPs")
                      = (IF config.peers[k].allowedIPs = <<>> THEN <<>>
                         ELSE <<Join(config.peers[k].allowedIPs, ", ")>>)

\* C15: a deletion takes out exactly the entry of the id and leaves every
\* other entry as it was, the peers made of the deleted config included; an
\* export then gives the text of a stored config with all its stored peers;
\* and the label the editor gives a peer whose config is gone is its stored
\* configId
C15_DeletionDoesNotCascade ==
    [][/\ Len(configs') < Len(configs) =>
            \E i \in 1..Len(configs) :
               /\ configs' = SubSeq(configs, 1, i - 1)
                                \o SubSeq(configs, i + 1, Len(configs))
               /\ configs[i].key \notin Keys(configs')
       /\ output' # output =>
            \E i \in 1..Len(configs) : IsTextOf(Split(output', "\n"), i)
       /\ \A d \in Dangling :
            LET peer == configs[d[1]].value.peers[d[2]]
            IN  editedConfig = configs[d[1]].value =>
                   PeerLabel(configs, editedConfig.peers[d[2]], d[2])
                       = "Peer from config: " \o peer.configId.s]_vars

\* C15 witness: after the deletion of the config a peer was made of, the
\* export of the config that holds the peer has given its text
C15_Witness ==
    /\ Dangling # {}
    /\ \E d \in Dangling :
          /\ IsTextOf(Split(output, "\n"), d[1])
          /\ view = "detail"
          /\ editedConfig = configs[d[1]].value

(***************************************************************************)
(* Properties of the collection                                            *)
(***************************************************************************)
\* C16: no config of the collection has among its peers one whose public key
\* is the key derived from the config's own private key
C16_NoOwnKeyAmongPeers ==
    \A i \in 1..Len(configs) :
        LET config == configs[i].value
            own == getPublicKey(config.interface.privateKey)
        IN  own # "" => \A k \in 1..Len(config.peers) : config.peers[k].publicKey # own

\* C17: every config is stored under the key equal to its own id, and no two
\* entries of the collection have the same id
C17_IdsUnique ==
    /\ \A i \in 1..Len(configs) : configs[i].key = configs[i].value.id
    /\ \A i, j \in 1..Len(configs) :
           configs[i].value.id = configs[j].value.id => i = j

(***************************************************************************)
(* Properties of the saves                                                 *)
(***************************************************************************)
\* C18: handleSave takes the edited config with its id and createdAt and
\* with updatedAt set to the time of the click, the timer stores just that
\* config, and from one state of the collection to the next a config keeps
\* its id and createdAt and its updatedAt does not decrease
C18_Lifecycle ==
    [][/\ Len(pendingSave') > Len(pendingSave) =>
            LET saved == pendingSave'[Len(pendingSave')].configToSave
            IN  /\ saved.id = editedConfig.id
                /\ saved.createdAt = editedConfig.createdAt
                /\ saved.updatedAt = now
                /\ saved.createdAt <= saved.updatedAt
       /\ Len(pendingSave') < Len(pendingSave) =>
            \E i \in 1..Len(configs') :
               /\ configs'[i] = [key |-> Head(pendingSave).configToSave.id,
                                 value |-> Head(pendingSave).configToSave]
               /\ \A j \in 1..Len(configs') : j # i => configs'[j] \in Range(configs)
       /\ \A i \in 1..Len(configs) : \E j \in 1..Len(configs') :
               /\ configs'[j].key = configs[i].key
               /\ configs'[j].value.id = configs[i].value.id
               /\ configs'[j].value.createdAt = configs[i].value.createdAt
               /\ configs'[j].value.updatedAt >= configs[i].value.updatedAt]_vars

\* C18 witness: the stored config, changed in the editor and saved after
\* time has passed, has its old createdAt and the time of the save as
\* updatedAt
C18_Witness ==
    \E i \in 1..Len(configs) :
        /\ configs[i].value.id = EditableStored.id
        /\ configs[i].value.createdAt = EditableStored.createdAt
        /\ configs[i].value.updatedAt > 1
        /\ configs[i].value.peers # EditableStored.peers

(***************************************************************************)
(* C19                                                                     *)
(***************************************************************************)
\* the text, without its whitespace, is 43 characters of the base64 alphabet
\* with or without one "=" after them: the texts that decode to 32 bytes
DecodesTo32Bytes(text) ==
    LET t == RemoveSpaces(text)
    IN  /\ Len(t) \in {43, 44}
        /\ \A i \in 1..43 : CharAt(t, i) \in Base64Set
        /\ Len(t) = 44 => CharAt(t, 44) = "="

\* C19: getPublicKey never throws.  For a private key text that is not valid
\* base64 or does not decode to exactly 32 bytes the public key shown is the
\* empty string; for a text that decodes to 32 bytes it is a non-empty key,
\* and it stays the same as long as the text is the same.
C19_GetPublicKeyTotal ==
    [][\A text \in {editedConfig'.interface.privateKey} :
          LET shown == PublicKeyShown(text)
          IN  /\ shown # InvalidCharacterError
              /\ ~DecodesTo32Bytes(text) => shown = ""
              /\ DecodesTo32Bytes(text) => shown # ""
              /\ text = editedConfig.interface.privateKey => shown = publicKey]_vars

\* a text that atob rejects has been typed into the private key field
C19_Witness ==
    /\ edits > 0
    /\ editedConfig.interface.privateKey = Key42 \o "-="
    /\ publicKey = ""

(***************************************************************************)
(* C20                                                                     *)
(***************************************************************************)
\* an address of the family of the separator and of the mask carries number
\* n, written as text, in its last place
Carries(sep, text, mask) ==
    \E a \in AllAddresses : EndsWith(a, sep \o text \o "/" \o mask)

\* the address a step has appended to the list of the edited config, in a set
Appended ==
    IF Len(editedConfig'.interface.address) = Len(editedConfig.interface.address) + 1
       /\ SubSeq(editedConfig'.interface.address, 1, Len(editedConfig.interface.address))
            = editedConfig.interface.address
    THEN {LastOf(editedConfig'.interface.address)}
    ELSE {}

\* C20: an address the buttons append carries the lowest host number from 1
\* that no address of the pool's family and prefix length carries, among all
\* configs and the edited config, and the number is within 1..254 for IPv4
\* and 1..65534 for IPv6; so with every number of the range used nothing is
\* appended.
C20_LowestFreeHostNumber ==
    [][\A addr \in Appended :
          IF Includes(addr, ".")
          THEN \E mask \in {Split(PoolIPv4, "/")[2]} :
                 \E n \in 1..(IPv4Limit - 1) :
                    /\ EndsWith(addr, "." \o ToString(n) \o "/" \o mask)
                    /\ ~Carries(".", ToString(n), mask)
                    /\ \A m \in 1..(n - 1) : Carries(".", ToString(m), mask)
          ELSE \E mask \in {Split(PoolIPv6, "/")[2]} :
                 \E n \in {v.n : v \in {ParseIntHex(LastOf(Split(Split(addr, "/")[1], ":")))}} :
                    /\ n \in 1..(IPv6Limit - 1)
                    /\ EndsWith(addr, ":" \o ToHex(n) \o "/" \o mask)
                    /\ ~Carries(":", ToHex(n), mask)
                    /\ \A m \in 1..(n - 1) : Carries(":", ToHex(m), mask)]_vars

\* the IPv4 button has filled the gap between the numbers 1 and 3
C20_Witness ==
    /\ edits > 0
    /\ editedConfig.interface.address
         = <<"10.0.10.1/24", "10.0.10.3/24", "fd10::1/64", "fd10::3/64", "10.0.10.2/24">>

(***************************************************************************)
(* C21                                                                     *)
(***************************************************************************)
\* decimal digits that read as a number of 1..65535
IsPortText(text) ==
    /\ text # "" /\ AllIn(text, DigitSet)
    /\ DigitsValue(text, 10, 0) \in 1..65535

\* host:port or [ipv6]:port with the port in 1..65535
IsHostPort(text) ==
    LET colon == LastIndexOf(text, ":")
        host == SubSeq(text, 1, colon - 1)
    IN  /\ colon > 1
        /\ IsPortText(SliceFrom(text, colon + 1))
        /\ \/ ~Includes(host, ":")
           \/ /\ CharAt(host, 1) = "[" /\ CharAt(host, Len(host)) = "]"
              /\ Len(host) >= 3
              /\ AllIn(SubSeq(host, 2, Len(host) - 1), HexSet \cup {":"})

\* C21: an endpoint of a peer in the editor that is not empty and that
\* validateEndpoint accepts has the form host:port or [ipv6]:port with the
\* port an integer in 1..65535.
C21_EndpointPortInRange ==
    \A i \in 1..Len(editedConfig.peers) :
        LET endpoint == editedConfig.peers[i].endpoint
        IN  Truthy(endpoint) /\ validateEndpoint(endpoint) = "" => IsHostPort(endpoint.s)

(***************************************************************************)
(* C22                                                                     *)
(***************************************************************************)
\* C22: every peer of every config of the collection has persistentKeepalive
\* either unset or an integer in 0..65535.
C22_StoredKeepaliveInRange ==
    \A c \in 1..Len(configs) :
        \A i \in 1..Len(configs[c].value.peers) :
            LET keepalive == configs[c].value.peers[i].persistentKeepalive
            IN  \/ keepalive = Undefined
                \/ keepalive.t = "number" /\ keepalive.n \in 0..65535

(***************************************************************************)
(* C23                                                                     *)
(***************************************************************************)
IsNumberIn(v, low, high) == v.t = "number" /\ v.n >= low /\ v.n <= high

\* the obfuscation rules, each for the values that are defined
ObfuscationRulesHold(amz) ==
    /\ \A k \in HFields : amz[k] # Undefined => IsNumberIn(amz[k], 0, 2147483647)
    /\ \A j, k \in HFields : j # k /\ amz[j] # Undefined => amz[j] # amz[k]
    /\ amz.S1 # Undefined => IsNumberIn(amz.S1, 1, 1132)
    /\ amz.S2 # Undefined => IsNumberIn(amz.S2, 1, 1188)
    /\ amz.S1 # Undefined /\ amz.S2 # Undefined => amz.S1.n + 56 # amz.S2.n
    /\ amz.Jc # Undefined => IsNumberIn(amz.Jc, 0, 128)
    /\ amz.Jmin # Undefined => amz.Jmin.t = "number" /\ amz.Jmin.n < 1280
    /\ amz.Jmax # Undefined => amz.Jmax.t = "number" /\ amz.Jmax.n <= 1280
    /\ amz.Jmin # Undefined /\ amz.Jmax # Undefined => amz.Jmax.n > amz.Jmin.n

\* C23: the stored settings with AmneziaWG enabled satisfy every obfuscation
\* rule.
C23_StoredSettingsObeyRules ==
    settings.amneziaWG.enabled => ObfuscationRulesHold(settings.amneziaWG)

(***************************************************************************)
(* Sessions: the page is loaded again over what localStorage holds         *)
(***************************************************************************)
\* the page is loaded: ConfigProvider renders with its initial state, no
\* config, DEFAULT_SETTINGS and isInitialized false, and the timers of the
\* page before are gone
Reload ==
    /\ isInitialized
    /\ configs' = <<>>
    /\ settings' = DefaultSettings
    /\ isInitialized' = FALSE
    /\ view' = "list"
    /\ isSaving' = FALSE
    /\ pendingSave' = <<>>
    /\ UNCHANGED <<now, importVars, codecVars, edits, storage>>

\* the effects of the mount: the load effect reads both items and sets the
\* collection, the settings and isInitialized; the save effects of the same
\* commit see the initial state; after the render that follows, the save
\* effects run again
Mount ==
    /\ ~isInitialized
    /\ LET loadedConfigs == LoadedConfigs(storage.configs)
           loadedSettings == LoadedSettings(storage.settings)
           first == [configs |-> saveEffect(isInitialized, storage.configs,
                                            StoredConfigs(configs)),
                     settings |-> saveEffect(isInitialized, storage.settings,
                                             StoredSettings(settings))]
       IN  /\ configs' = loadedConfigs
           /\ settings' = loadedSettings
           /\ isInitialized' = TRUE
           /\ storage' = [configs |-> saveEffect(TRUE, first.configs,
                                                 StoredConfigs(loadedConfigs)),
                          settings |-> saveEffect(TRUE, first.settings,
                                                  StoredSettings(loadedSettings))]
    /\ UNCHANGED <<now, importVars, codecVars, editorVars>>

\* what is typed into the number fields of the settings form
SettingsInputs == {<<"mtu", "">>, <<"mtu", "1400">>, <<"listenPort", "51820">>}

NextPersist ==
    \/ isInitialized /\ handleSettings
    \/ isInitialized /\ \E input \in SettingsInputs :
                           handleSubmit(handleInputChange(settings, input[1], input[2]))
    \/ isInitialized /\ handleSubmit(toggleAmnezia(settings))
    \/ isInitialized /\ \E i \in 1..Len(configs) : handleDeleteConfig(configs[i].value.id)
    \/ isInitialized /\ \E file \in BackupFiles : handleBackupImported(file)
    \/ isInitialized /\ handleReset
    \/ isInitialized /\ \E i \in 1..(1 + MaxOthers) : handleSelectConfig(i)
    \/ isInitialized /\ \E id \in UUIDs : handleAddConfig(id)
    \/ isInitialized /\ handleSave
    \/ isInitialized /\ SaveTimerFires
    \/ Reload
    \/ Mount

SpecPersist == InitSettings /\ [][NextPersist]_vars

\* C25: what the page holds after it is initialized is what a reload
\* restores: the items of localStorage, read back by the load effect with
\* createdAt and updatedAt revived as dates, give the collection and the
\* settings, after every add, update, delete, import, reset and save of the
\* settings form
C25_ReloadRestores ==
    isInitialized => /\ LoadedConfigs(storage.configs) = configs
                     /\ LoadedSettings(storage.settings) = settings

(***************************************************************************)
(* The advisory endpoint: the comment "# Endpoint = v" of [Interface]      *)
(***************************************************************************)
\* the advisory endpoints a config holds: none, and texts as the parser
\* stores them, trimmed and of one line
AdvisoryEndpoints ==
    {Undefined, Str(""), Str("vpn.example.com"), Str("vpn.example.com:51820"),
     Str("[fd10::1]:51820"), Str("a = b"), Str("# Endpoint = x")}

\* files written by hand, with the endpoint of the interface and of the last
\* peer that parseWireGuardConfig is to give for them
AdvisoryFiles ==
    LET key == "PrivateKey = " \o PrivateKeyOf(1)
        peer == "[Peer]\nPublicKey = " \o PublicKeyOf(3)
    IN  {[text |-> "[Interface]\n" \o key \o "\n# Endpoint = vpn.example.com:51820",
          interface |-> Str("vpn.example.com:51820"), peers |-> 0, peer |-> Undefined],
         [text |-> "[Interface]\n#ENDPOINT=vpn.example.com\n" \o key,
          interface |-> Str("vpn.example.com"), peers |-> 0, peer |-> Undefined],
         [text |-> "[Interface]\n" \o key \o "\n  # Endpoint = a = b  \r\n# Endpoint = c",
          interface |-> Str("c"), peers |-> 0, peer |-> Undefined],
         [text |-> "[Interface]\n" \o key \o "\n# Endpoint =",
          interface |-> Str(""), peers |-> 0, peer |-> Undefined],
         [text |-> "[Interface]\n" \o key \o "\n\n" \o peer
                   \o "\n# Endpoint = vpn.example.com:51820",
          interface |-> Undefined, peers |-> 1, peer |-> Undefined],
         [text |-> "[Interface]\n" \o key \o "\n# Endpoint = a\n" \o peer
                   \o "\n# Endpoint = b\nEndpoint = c:1\n" \o peer \o "\n#endpoint=d",
          interface |-> Str("a"), peers |-> 2, peer |-> Undefined],
         [text |-> "[Interface]\n" \o key \o "\n" \o peer
                   \o "\nEndpoint = c:1\n# Endpoint = b",
          interface |-> Undefined, peers |-> 1, peer |-> Str("c:1")]}

InitAdvisory ==
    /\ InitImportIdle
    /\ settings = DefaultSettings
    /\ \E interface \in {BaseInterface, FullInterface}, endpoint \in AdvisoryEndpoints,
          peers \in SeqsUpTo({BasePeer, CHOOSE p \in Peers : Truthy(p.endpoint)}, 1),
          enableAllPeers \in BOOLEAN :
           editedConfig = Config("id-1", [interface EXCEPT !.endpoint = endpoint],
                                 peers, enableAllPeers)
    /\ configs = Entries(<<editedConfig, CHOOSE c \in Others : Truthy(c.interface.endpoint)>>)
    /\ AfterMount

\* handleFileChange and reader.onload on a file written by hand
ImportAdvisory(file, id) ==
    /\ output = ""
    /\ phase = "idle"
    /\ id \notin Keys(configs)
    /\ lines' = Split(file.text, "\n")
    /\ LET p == ParseLines(ParserStart, TrimAll(lines'))
       IN  IF p.error # ""
           THEN /\ parser' = p
                /\ CatchImportError
                /\ UNCHANGED <<editedConfig, view>>
           ELSE /\ parser' = ParseEnd(p)
                /\ handleConfigImported(ParsedConfig(parser', "wg0", id, now))
                /\ phase' = "imported"
                /\ alerts' = alerts
    /\ UNCHANGED <<settings, now, output, backupFile, isSaving, pendingSave, edits>>
    /\ SaveEffects

NextAdvisory ==
    \/ RenderConfigText
    \/ \E id \in {"id-2"} : ImportGenerated(id)
    \/ \E file \in AdvisoryFiles : ImportAdvisory(file, "id-2")

SpecAdvisory == InitAdvisory /\ [][NextAdvisory]_vars

\* the file read is the text generated for the first config
FromGenerated == output # "" /\ lines = Split(output, "\n")

\* the config the generated text was made for
Rendered == IF FromGenerated THEN Original ELSE editedConfig

\* C26: a comment "# Endpoint = v" inside [Interface] gives the interface
\* the advisory endpoint v without an error and inside [Peer] gives no
\* endpoint to the interface or the peer; the generated text holds the
\* advisory endpoint as the comment "# Endpoint = v" of the interface and no
\* line "Endpoint = " there; and the import of the generated text gives the
\* advisory endpoint of the config back, none for none
C26_AdvisoryEndpoint ==
    /\ (phase # "idle" /\ ~FromGenerated) =>
          \A file \in {f \in AdvisoryFiles : lines = Split(f.text, "\n")} :
              /\ phase = "imported"
              /\ Reimported.interface.endpoint = file.interface
              /\ Len(Reimported.peers) = file.peers
              /\ file.peers > 0 => Reimported.peers[file.peers].endpoint = file.peer
    /\ output # "" =>
          LET text == Split(output, "\n")
              block == InterfaceLines(text, HeadersFrom(text, 1))
          IN  /\ ValuesOf(block, "# Endpoint")
                    = (IF Truthy(Rendered.interface.endpoint)
                       THEN <<Rendered.interface.endpoint.s>> ELSE <<>>)
              /\ ValuesOf(block, "Endpoint") = <<>>
    /\ (phase # "idle" /\ FromGenerated) =>
          /\ phase = "imported"
          /\ IF Truthy(Original.interface.endpoint)
             THEN Reimported.interface.endpoint = Original.interface.endpoint
             ELSE ~Truthy(Reimported.interface.endpoint)

\* the text generated for a config with an advisory endpoint and with a
\* peer that has a live endpoint has been imported
C26_Witness ==
    /\ FromGenerated
    /\ phase = "imported"
    /\ Truthy(Original.interface.endpoint)
    /\ Reimported.id = "id-2"
    /\ Reimported.interface.endpoint = Original.interface.endpoint
    /\ \E k \in 1..Len(Reimported.peers) : Truthy(Reimported.peers[k].endpoint)

(***************************************************************************)
(* Deletion and the pending save                                           *)
(***************************************************************************)
\* C27: a deleted config stays deleted: the timer of a save never puts an
\* id into the collection that the collection held when Save was clicked
\* and that has been deleted since
C27_DeletedStaysDeleted ==
    [][(pendingSave # <<>> /\ Len(pendingSave') < Len(pendingSave)) =>
          LET id == Head(pendingSave).configToSave.id
          IN  (id \in Head(pendingSave).ids /\ id \notin Keys(configs)) =>
                  id \notin Keys(configs')]_vars

(***************************************************************************)
(* enableAllPeers over a collection in which configs share a key           *)
(***************************************************************************)
\* other configs, two of which hold the same private key
SharedKeyOthers ==
    {Config("id-3", [EmptyInterface EXCEPT !.privateKey = PrivateKeyOf(3),
                                          !.address = <<"10.0.10.3/24">>], <<>>, FALSE),
     Config("id-4", [EmptyInterface EXCEPT !.privateKey = PrivateKeyOf(4),
                                          !.address = <<"10.0.10.4/24">>], <<>>, FALSE),
     Config("id-6", [EmptyInterface EXCEPT !.privateKey = PrivateKeyOf(3),
                                          !.address = <<"10.0.10.6/24">>], <<>>, FALSE)}

InitShared ==
    /\ InitImportIdle
    /\ settings = DefaultSettings
    /\ configs \in {Entries(<<StoredEdited>> \o c) :
                       c \in {c \in SeqsUpTo(SharedKeyOthers, MaxOthers) :
                                \A i, j \in 1..Len(c) : i # j => c[i].id # c[j].id}}
    /\ \E peers \in SeqsUpTo(KeepalivePeers, MaxPeers), enableAllPeers \in BOOLEAN :
           editedConfig = Config("id-1", BaseInterface, peers, enableAllPeers)
    /\ AfterMount

NextShared ==
    \/ RenderConfigText
    \/ generateQRCode

SpecShared == InitShared /\ [][NextShared]_vars

\* C28: with enableAllPeers and explicit peers of pairwise different public
\* keys, the [Peer] blocks of the generated text carry pairwise different
\* public keys
C28_DistinctPeerKeys ==
    (Generated /\ editedConfig.enableAllPeers
     /\ \A i, j \in 1..Len(editedConfig.peers) :
           i # j => editedConfig.peers[i].publicKey # editedConfig.peers[j].publicKey) =>
        LET text == Split(output, "\n")
            headers == HeadersFrom(text, 1)
            key(k) == ValuesOf(BlockLines(text, headers, k), "PublicKey")
        IN  \A i, j \in 1..Len(headers) : i # j => key(i) # key(j)

(***************************************************************************)
(* What a text import lets into the collection                             *)
(***************************************************************************)
\* C29: the config a text import has added passes the validators of a
\* save: its private key, every address of its interface, and the public key
\* and every allowedIP of every peer; so a text without PrivateKey or
\* without the PublicKey of a peer adds nothing
C29_ImportedConfigValid ==
    phase = "imported" =>
        LET config == configs[Len(configs)].value
        IN  /\ validatePrivateKey(config.interface.privateKey) = ""
            /\ \A i \in 1..Len(config.interface.address) :
                   validateCIDR(config.interface.address[i]) = ""
            /\ \A k \in 1..Len(config.peers) :
                   /\ validatePublicKey(config.peers[k].publicKey) = ""
                   /\ \A i \in 1..Len(config.peers[k].allowedIPs) :
                          validateCIDR(config.peers[k].allowedIPs[i]) = ""

(***************************************************************************)
(* The overrides of a config beside the AmneziaWG fields of the settings   *)
(***************************************************************************)
\* settings with AmneziaWG enabled that validateAmnezia accepts
AmneziaSettings ==
    {[DefaultSettings EXCEPT !.amneziaWG.enabled = TRUE,
                             !.amneziaWG.Jmin = pair[1], !.amneziaWG.Jmax = pair[2]] :
        pair \in {<<Undefined, Undefined>>, <<Num(50), Num(1000)>>,
                  <<Num(50), Undefined>>, <<Undefined, Num(1000)>>}}

InitOverride ==
    /\ settings \in {stngs \in AmneziaSettings : validateForm(stngs) = {}}
    /\ now = 1
    /\ configs = EditorCollection
    /\ phase = "idle"
    /\ lines = <<>>
    /\ parser = ParserStart
    /\ alerts = 0
    /\ editedConfig \in {EditableStored,
                           createEmptyConfig("id-2", PrivateKeyOf(3), settings, now)}
    /\ output = ""
    /\ backupFile = NoBackup
    /\ view = "detail"
    /\ isSaving = FALSE
    /\ pendingSave = <<>>
    /\ edits = 0
    /\ AfterMount

NextOverride ==
    \/ \E input \in OverrideNumberInputs : EditOverrideNumber(input[1], input[2])
    \/ handleSave
    \/ SaveTimerFires

SpecOverride == InitOverride /\ [][NextOverride]_vars

\* the effective value of a field: the override of the config if defined, the
\* field of the settings otherwise
Effective(config, stngs, k) ==
    IF config.amneziaWG[k] # Undefined THEN config.amneziaWG[k] ELSE stngs.amneziaWG[k]

\* C30: with AmneziaWG enabled, a config that handleSave has taken has an
\* effective Jmax above its effective Jmin whenever both are defined
C30_EffectiveJmaxAboveJmin ==
    settings.amneziaWG.enabled =>
        \A i \in 1..Len(pendingSave) :
            LET jmin == Effective(pendingSave[i].configToSave, settings, "Jmin")
                jmax == Effective(pendingSave[i].configToSave, settings, "Jmax")
            IN  (jmin # Undefined /\ jmax # Undefined) =>
                    (jmin.t = "number" /\ jmax.t = "number" /\ jmax.n > jmin.n)

=============================================================================
